---- MODULE Spec2Model ----
(***************************************************************************)
(* A model of the read-only FAT32 driver (crate fat32): the MBR and EBPB   *)
(* parsers, the sector cache, the FAT cluster chains, the directory        *)
(* decoder, file read/seek and the path resolver.                          *)
(*                                                                         *)
(* Bytes are integers 0..255, byte strings and names are sequences (names  *)
(* are sequences of code points).  Every operation that can fail returns a *)
(* record whose field st is "Ok", the name of the io::ErrorKind / Error    *)
(* variant it fails with, or "Panic" when the Rust code panics.            *)
(***************************************************************************)
EXTENDS Integers, Sequences, FiniteSets, TLC

VARIABLES
    device,     \* the block device handed to VFat::from: [disk, mbr]
    build,      \* "debug" (overflow checks on) or "release" (wrapping arithmetic)
    vfat,       \* the mounted VFat (Shared<VFat>), NoVFat before a successful mount
    cache,      \* CachedDevice: [sectors: logical sector -> [data, dirty], asked]
    file,       \* the File handle the caller holds (NoEntry when none)
    dir,        \* the Dir handle the caller holds (NoEntry when none)
    result,     \* what the last operation returned to its caller
    panicked,   \* TRUE once an operation has panicked (the program is gone)
    fullRead,   \* history: the last full read of `file` from offset 0
    startCluster, \* the Cluster the caller holds (-1 when none)
    iter,       \* the ClusterIter the caller holds (NoIter when none)
    dirIter     \* the DirIter the caller holds (NoDirIter when none)

vars ==
    <<device, build, vfat, cache, file, dir, result, panicked, fullRead, startCluster, iter,
      dirIter>>

Min(a, b) == IF a <= b THEN a ELSE b

(***************************************************************************)
(* On-disk encodings (little-endian, packed)                               *)
(***************************************************************************)
LE16(v) == << v % 256, (v \div 256) % 256 >>

LE32(v) == << v % 256, (v \div 256) % 256, (v \div 65536) % 256, (v \div 16777216) % 256 >>

Pad(s, n, fill) == [i \in 1..n |-> IF i <= Len(s) THEN s[i] ELSE fill]

Zeros(n) == [i \in 1..n |-> 0]

\* A regular (8.3) directory entry: 32 bytes.
RegularSlot(name, ext, attr, cluster, size) ==
    Pad(name, 8, 32) \o Pad(ext, 3, 32) \o << attr, 0, 0 >>
        \o LE16(0) \o LE16(0) \o LE16(0)
        \o LE16(cluster \div 65536)
        \o LE16(0) \o LE16(0)
        \o LE16(cluster % 65536)
        \o LE32(size)

\* The 13 UTF-16 units of one LFN entry holding `chars`: a name shorter than
\* 13 units is terminated by 0x0000 and padded with 0xFFFF.
LfnUnits(chars) ==
    [i \in 1..13 |-> IF i <= Len(chars) THEN chars[i]
                     ELSE IF i = Len(chars) + 1 THEN 0 ELSE 65535]

RECURSIVE LE16s(_)
LE16s(units) ==
    IF units = << >> THEN << >> ELSE LE16(Head(units)) \o LE16s(Tail(units))

\* A long-file-name directory entry: 32 bytes, attribute 0x0F.
LfnSlot(seq, units) ==
    << seq >> \o LE16s(SubSeq(units, 1, 5)) \o << 15, 0, 0 >>
        \o LE16s(SubSeq(units, 6, 11)) \o LE16(0) \o LE16s(SubSeq(units, 12, 13))

DeletedSlot == << 229 >> \o Zeros(31)

EndSlot == Zeros(32)

RECURSIVE Flatten(_)
Flatten(ss) == IF ss = << >> THEN << >> ELSE Head(ss) \o Flatten(Tail(ss))

(***************************************************************************)
(* The block devices (disk images) the driver is run on.  A disk is given  *)
(* by its physical sector size, its MBR, the EBPB found at each partition  *)
(* start, its FAT cells and the bytes of its directory clusters; every     *)
(* other data sector holds a byte pattern that depends on its position and *)
(* on `epoch`, the number of times the medium was rewritten from outside.  *)
(* Reads of the sectors in `bad`, and of those past the end, fail.         *)
(***************************************************************************)
MbrEntry(bootable, type, start) ==
    [bootable |-> bootable, partition_type |-> type, relative_sector |-> start]

Ebpb(bps, spc, reserved, fats, spf2, spf4, root) ==
    [bytes_per_sector |-> bps, sectors_per_cluster |-> spc,
     reserved_sectors |-> reserved, fat_num |-> fats,
     sector_per_fat_2 |-> spf2, sector_per_fat_4 |-> spf4,
     root_cluster |-> root, bootable_signature |-> 43605]

\* What a sector that holds no EBPB reads as: no 0xAA55 at offset 510.
NoEbpb == [Ebpb(0, 0, 0, 0, 0, 0, 0) EXCEPT !.bootable_signature = 0]

DataByte(n, j, epoch) == (n * 37 + j * 11 + epoch * 101) % 251

\* FAT cell values: 0x0FFFFFFF (end of chain) and 0x0FFFFFF8 (media descriptor
\* in cell 0, also read as end of chain).
EocCell == 268435456 - 1
MediaCell == 268435456 - 8

\* ---- the small disk: 32-byte sectors, 2 sectors per cluster, 16 clusters ----
\*   /AB        file, clusters 5 -> 6, size 70
\*   /cd        file with a long name (short name CD~1), empty: cluster 0, size 0
\*   /D         directory, clusters 7 -> 14
\*   /D/X       file, cluster 9, size 3
\*   /D/SH      file, cluster 11 only, declared size 66 (the chain holds 64 bytes)
\*   /D/BAD     file, cluster 12 whose FAT cell is Free, size 4
\*   /SUB       directory, clusters 8 -> 10 -> 13, holding ., .., the file x
\*              and, after it, the directory X (the clusters of /D)
SmallRoot ==
    << RegularSlot(<<65, 66>>, << >>, 32, 5, 70),
       RegularSlot(<<68>>, << >>, 16, 7, 0),
       LfnSlot(65, LfnUnits(<<99, 100>>)),
       RegularSlot(<<67, 68, 126, 49>>, << >>, 33, 0, 0),
       RegularSlot(<<83, 85, 66>>, << >>, 18, 8, 0),
       EndSlot >>

SmallD ==
    << RegularSlot(<<88>>, << >>, 32, 9, 3),
       RegularSlot(<<83, 72>>, << >>, 32, 11, 66),
       RegularSlot(<<66, 65, 68>>, << >>, 32, 12, 4),
       RegularSlot(<<89>>, << >>, 32, 9, 3) >>

SmallSub ==
    << RegularSlot(<<46>>, << >>, 16, 8, 0),
       RegularSlot(<<46, 46>>, << >>, 16, 0, 0),
       RegularSlot(<<120>>, << >>, 32, 9, 3),
       RegularSlot(<<88>>, << >>, 16, 7, 0),
       EndSlot,
       EndSlot >>

SmallDisk ==
    [name |-> "small", sector_size |-> 32, sectors |-> 32, bad |-> {}, epoch |-> 0,
     mbr |-> [signature |-> 43605,
              partitions |-> << MbrEntry(128, 12, 1), MbrEntry(0, 0, 0),
                                MbrEntry(0, 0, 0), MbrEntry(0, 0, 0) >>],
     ebpb |-> [n \in {1} |-> Ebpb(32, 2, 1, 1, 0, 2, 2)],
     fat_start |-> 2, fat_size |-> 2, data_start |-> 4, cluster_sectors |-> 2,
     fat |-> [c \in 0..15 |->
                CASE c = 0 -> MediaCell
                  [] c = 2 -> 3 [] c = 3 -> 4
                  [] c = 5 -> 6
                  [] c = 7 -> 14
                  [] c = 8 -> 10 [] c = 10 -> 13
                  [] c \in {1, 4, 6, 9, 11, 13, 14} -> EocCell
                  [] OTHER -> 0],
     dirs |-> [c \in {2, 3, 4, 7, 14, 8, 10, 13} |->
                CASE c = 2 -> Flatten(SubSeq(SmallRoot, 1, 2))
                  [] c = 3 -> Flatten(SubSeq(SmallRoot, 3, 4))
                  [] c = 4 -> Flatten(SubSeq(SmallRoot, 5, 6))
                  [] c = 7 -> Flatten(SubSeq(SmallD, 1, 2))
                  [] c = 14 -> Flatten(SubSeq(SmallD, 3, 4))
                  [] c = 8 -> Flatten(SubSeq(SmallSub, 1, 2))
                  [] c = 10 -> Flatten(SubSeq(SmallSub, 3, 4))
                  [] c = 13 -> Flatten(SubSeq(SmallSub, 5, 6))]]

\* The small disk with its FAT size in the 2-byte field of the EBPB (and a
\* 4-byte field that disagrees)
SmallDisk16 == [SmallDisk EXCEPT !.ebpb = [n \in {1} |-> Ebpb(32, 2, 1, 1, 2, 7, 2)]]

\* ---- the scenario disk: 512-byte sectors, 8 sectors per cluster ----
\*   partition 0: type 0x0C at sector 2048; 32 reserved sectors, 2 FATs of 256
\*   /VERYLO~1  preceded by LFN(seq 2, "LONG") and LFN(seq 1, "VERY_"), size 1024
\*   /DATA.BIN  file, clusters 10 -> 11, size 1500
ScenarioRoot ==
    << LfnSlot(66, LfnUnits(<<76, 79, 78, 71>>)),
       LfnSlot(1, LfnUnits(<<86, 69, 82, 89, 95>>)),
       RegularSlot(<<86, 69, 82, 89, 76, 79, 126, 49>>, << >>, 32, 3, 1024),
       RegularSlot(<<68, 65, 84, 65>>, <<66, 73, 78>>, 32, 10, 1500) >>

ScenarioDisk ==
    [name |-> "scenario", sector_size |-> 512, sectors |-> 65536, bad |-> {},
     epoch |-> 0,
     mbr |-> [signature |-> 43605,
              partitions |-> << MbrEntry(128, 12, 2048), MbrEntry(0, 0, 0),
                                MbrEntry(0, 0, 0), MbrEntry(0, 0, 0) >>],
     ebpb |-> [n \in {2048} |-> Ebpb(512, 8, 32, 2, 0, 256, 2)],
     fat_start |-> 2080, fat_size |-> 256, data_start |-> 2592, cluster_sectors |-> 8,
     fat |-> [c \in 0..11 |->
                CASE c = 0 -> MediaCell
                  [] c = 10 -> 11
                  [] c \in {1, 2, 3, 11} -> EocCell
                  [] OTHER -> 0],
     dirs |-> [c \in {2} |-> Flatten(ScenarioRoot)]]

\* ---- the partitioned disk: four one-sector-FAT partitions at sectors 1..4 ----
PartsDisk ==
    [name |-> "parts", sector_size |-> 32, sectors |-> 16, bad |-> {}, epoch |-> 0,
     mbr |-> [signature |-> 43605,
              partitions |-> << MbrEntry(128, 12, 1), MbrEntry(0, 11, 2),
                                MbrEntry(0, 12, 3), MbrEntry(0, 11, 4) >>],
     ebpb |-> [n \in 1..4 |-> Ebpb(32, 1, 1, 1, IF n % 2 = 0 THEN 1 ELSE 0, 2, 2)],
     fat_start |-> 16, fat_size |-> 1, data_start |-> 16, cluster_sectors |-> 1,
     fat |-> [c \in {} |-> 0],
     dirs |-> [c \in {} |-> << >>]]

\* ---- the chains disk: the geometry of the small disk, 30 sectors ----
\*   3 -> 4 -> 5 -> EOC        6 -> 7 -> 6 (a cycle)       14 -> 14 (a cycle)
\*   8 -> 9, 9 is Free         10 is Reserved              11 is Bad
\*   12 -> 20 (no such cell)   13 -> 15 -> EOC, cluster 15 lies past the end
ChainsDisk ==
    [name |-> "chains", sector_size |-> 32, sectors |-> 30, bad |-> {}, epoch |-> 0,
     mbr |-> [signature |-> 43605,
              partitions |-> << MbrEntry(128, 12, 1), MbrEntry(0, 0, 0),
                                MbrEntry(0, 0, 0), MbrEntry(0, 0, 0) >>],
     ebpb |-> [n \in {1} |-> Ebpb(32, 2, 1, 1, 0, 2, 2)],
     fat_start |-> 2, fat_size |-> 2, data_start |-> 4, cluster_sectors |-> 2,
     fat |-> [c \in 0..15 |->
                CASE c = 0 -> MediaCell
                  [] c = 3 -> 4 [] c = 4 -> 5
                  [] c = 6 -> 7 [] c = 7 -> 6
                  [] c = 8 -> 9 [] c = 9 -> 0
                  [] c = 10 -> 1
                  [] c = 11 -> 268435447
                  [] c = 12 -> 20
                  [] c = 13 -> 15
                  [] c = 14 -> 14
                  [] OTHER -> EocCell],
     dirs |-> [c \in {} |-> << >>]]

\* ---- the wide disk: 32-byte device sectors under 64-byte logical sectors ----
\* Logical sector 1 + k lies in the physical sectors 1 + 2k and 2 + 2k; the
\* device has 12 sectors, so logical sector 6 is half past its end.
WideDisk ==
    [name |-> "wide", sector_size |-> 32, sectors |-> 12, bad |-> {}, epoch |-> 0,
     mbr |-> [signature |-> 43605,
              partitions |-> << MbrEntry(128, 12, 1), MbrEntry(0, 0, 0),
                                MbrEntry(0, 0, 0), MbrEntry(0, 0, 0) >>],
     ebpb |-> [n \in {1} |-> Ebpb(64, 1, 1, 1, 0, 1, 2)],
     fat_start |-> 3, fat_size |-> 2, data_start |-> 5, cluster_sectors |-> 2,
     fat |-> [c \in 0..15 |-> IF c = 0 THEN MediaCell ELSE EocCell],
     dirs |-> [c \in {} |-> << >>]]

\* The wide disk with a physical sector that cannot be read
WideDiskBad == [WideDisk EXCEPT !.bad = {4}]

\* The wide disk with its partition at physical sector 3: logical sectors
\* 0..2 are the physical ones, logical sector 3 + k lies in 3 + 2k and 4 + 2k
WideDiskAt3 ==
    [WideDisk EXCEPT !.name = "wide3",
                     !.mbr.partitions = << MbrEntry(128, 12, 3), MbrEntry(0, 0, 0),
                                           MbrEntry(0, 0, 0), MbrEntry(0, 0, 0) >>,
                     !.ebpb = [n \in {3} |-> Ebpb(64, 1, 1, 1, 0, 1, 2)],
                     !.fat_start = 5, !.data_start = 7]

\* ---- long-name disks: the small disk whose root directory holds the LFN
\*      entries `parts` (each a raw sequence number and 13 units, in the order
\*      they lie on the disk) before the short entry X, file, cluster 9 ----
LfnRoot(parts) ==
    LET slots == [i \in 1..Len(parts) |-> LfnSlot(parts[i].seq, parts[i].units)]
                     \o << RegularSlot(<<88>>, << >>, 32, 9, 3) >>
    IN  [i \in 1..6 |-> IF i <= Len(slots) THEN slots[i] ELSE EndSlot]

LfnDisk(parts) ==
    [name |-> "lfn", sector_size |-> 32, sectors |-> 32, bad |-> {}, epoch |-> 0,
     mbr |-> SmallDisk.mbr, ebpb |-> SmallDisk.ebpb,
     fat_start |-> 2, fat_size |-> 2, data_start |-> 4, cluster_sectors |-> 2,
     fat |-> SmallDisk.fat,
     dirs |-> [c \in {2, 3, 4} |->
                 Flatten(SubSeq(LfnRoot(parts), 2 * (c - 2) + 1, 2 * (c - 2) + 2))],
     lfn |-> parts]

\* ---- directory disks: the small disk whose root directory (clusters
\*      2 -> 3 -> 4, six slots) holds a slot of the kind kinds[i] at place i:
\*      "R" the regular entry of a file named by the letter 64 + i, with first
\*      cluster 16 + i and size i; "L" an LFN entry with sequence number i
\*      that holds "l" and the digit i; "D" a deleted slot; "E" an end slot ----
DirSlot(kind, i) ==
    CASE kind = "R" -> RegularSlot(<< 64 + i >>, << >>, 32, 16 + i, i)
      [] kind = "L" -> LfnSlot(i, LfnUnits(<< 108, 48 + i >>))
      [] kind = "D" -> DeletedSlot
      [] kind = "E" -> EndSlot

DirDisk(kinds) ==
    [name |-> "dir", sector_size |-> 32, sectors |-> 32, bad |-> {}, epoch |-> 0,
     mbr |-> SmallDisk.mbr, ebpb |-> SmallDisk.ebpb,
     fat_start |-> 2, fat_size |-> 2, data_start |-> 4, cluster_sectors |-> 2,
     fat |-> SmallDisk.fat,
     dirs |-> [c \in {2, 3, 4} |->
                 DirSlot(kinds[2 * (c - 2) + 1], 2 * (c - 2) + 1)
                    \o DirSlot(kinds[2 * (c - 2) + 2], 2 * (c - 2) + 2)],
     slots |-> kinds]

Disk(d) ==
    CASE d = "small" -> SmallDisk
      [] d = "scenario" -> ScenarioDisk
      [] d = "parts" -> PartsDisk
      [] d = "chains" -> ChainsDisk
      [] d = "wide" -> WideDisk

\* BlockDevice::sector_size of the raw device.
DeviceSectorSize(dev) == dev.sector_size

\* The bytes of physical sector n of the disk.
DiskSectorBytes(k, n) ==
    LET size == k.sector_size
        cells == size \div 4
    IN  IF n >= k.data_start
        THEN LET c == 2 + (n - k.data_start) \div k.cluster_sectors
                 i == (n - k.data_start) % k.cluster_sectors
             IN  IF c \in DOMAIN k.dirs
                 THEN [j \in 1..size |->
                         IF i * size + j <= Len(k.dirs[c]) THEN k.dirs[c][i * size + j]
                         ELSE 0]
                 ELSE [j \in 1..size |-> DataByte(n, j, k.epoch)]
        ELSE IF n >= k.fat_start
        THEN LET first == ((n - k.fat_start) % k.fat_size) * cells
             IN  [j \in 1..size |->
                    LET c == first + (j - 1) \div 4
                    IN  LE32(IF c \in DOMAIN k.fat THEN k.fat[c] ELSE 0)[((j - 1) % 4) + 1]]
        ELSE IF n = 0 THEN Zeros(size)
        ELSE [j \in 1..size |-> DataByte(n, j, k.epoch)]

\* BlockDevice::read_sector of the raw device: one whole physical sector, or
\* an I/O error (past the end of the device, or a sector that cannot be read).
DeviceReadSector(dev, n) ==
    IF n \in 0..(dev.sectors - 1) /\ n \notin dev.bad
    THEN [st |-> "Ok", data |-> DiskSectorBytes(dev, n)]
    ELSE [st |-> "Io", data |-> << >>]

(***************************************************************************)
(* mbr.rs, ebpb.rs: the boot records                                       *)
(***************************************************************************)
\* A variant of MasterBootRecord::from that looks at the boot indicators
\* before the signature
MasterBootRecordFromIndicatorsFirst(dev) ==
    LET record == dev.mbr
        bad == {i \in 1..4 : record.partitions[i].bootable # 0
                             /\ record.partitions[i].bootable # 128}
    IN  IF DeviceReadSector(dev, 0).st # "Ok" THEN [st |-> "Io", n |-> 0, record |-> record]
        ELSE IF bad # {}
        THEN [st |-> "UnknownBootIndicator",
              n |-> (CHOOSE i \in bad : \A j \in bad : i <= j) - 1,
              record |-> record]
        ELSE IF record.signature # 43605
        THEN [st |-> "BadSignature", n |-> 0, record |-> record]
        ELSE [st |-> "Ok", n |-> 0, record |-> record]

\* MasterBootRecord::from: sector 0 read as a MasterBootRecord.
MasterBootRecordFrom(dev) ==
    LET record == dev.mbr
        bad == {i \in 1..4 : record.partitions[i].bootable # 0
                             /\ record.partitions[i].bootable # 128}
    IN  IF DeviceReadSector(dev, 0).st # "Ok" THEN [st |-> "Io", n |-> 0, record |-> record]
        ELSE IF record.signature # 43605
        THEN [st |-> "BadSignature", n |-> 0, record |-> record]
        ELSE IF bad # {}
        THEN [st |-> "UnknownBootIndicator",
              n |-> (CHOOSE i \in bad : \A j \in bad : i <= j) - 1,
              record |-> record]
        ELSE [st |-> "Ok", n |-> 0, record |-> record]

\* MasterBootRecord::find_partition_with_type: the first partition entry of
\* the given type, None when there is none.
FindPartitionWithType(mbr, type) ==
    LET hits == {i \in 1..4 : mbr.partitions[i].partition_type = type}
    IN  IF hits = {} THEN [some |-> FALSE, part |-> MbrEntry(0, 0, 0)]
        ELSE [some |-> TRUE,
              part |-> mbr.partitions[CHOOSE i \in hits : \A j \in hits : i <= j]]

\* BiosParameterBlock::from: the sector read as a BiosParameterBlock.
BiosParameterBlockFrom(dev, sector) ==
    LET bpb == IF sector \in DOMAIN dev.ebpb THEN dev.ebpb[sector] ELSE NoEbpb
    IN  IF DeviceReadSector(dev, sector).st # "Ok" THEN [st |-> "Io", bpb |-> NoEbpb]
        ELSE IF bpb.bootable_signature # 43605 THEN [st |-> "BadSignature", bpb |-> bpb]
        ELSE [st |-> "Ok", bpb |-> bpb]

\* BiosParameterBlock::get_sector_per_fat: the 2-byte field if nonzero, else
\* the 4-byte field.
GetSectorPerFat(bpb) ==
    IF bpb.sector_per_fat_2 # 0 THEN bpb.sector_per_fat_2 ELSE bpb.sector_per_fat_4

(***************************************************************************)
(* cluster.rs: Cluster                                                     *)
(***************************************************************************)
\* Cluster::from: the top 4 bits of the 32-bit number are dropped.
ClusterFrom(raw_num) == raw_num % 268435456

(***************************************************************************)
(* vfat.rs: VFat::from                                                     *)
(***************************************************************************)
NoVFat ==
    [mounted |-> FALSE,
     partition |-> [start |-> 0, sector_size |-> 0],
     bytes_per_sector |-> 0, sectors_per_cluster |-> 0, sectors_per_fat |-> 0,
     fat_start_sector |-> 0, data_start_sector |-> 0, root_dir_cluster |-> 0]

\* The two partition types VFat::from asks the MBR for, in order.
FirstPartitionType == 12
SecondPartitionType == 12

\* A variant of VFat::from that counts one FAT whatever fat_num says
VFatFromOneFat(dev) ==
    LET Failed(st, why, n) == [st |-> st, why |-> why, n |-> n, vfat |-> NoVFat]
        Mounted(start, ebpb_info, sector_per_fat) ==
            \* CachedDevice::new: assert!(partition.sector_size >= device.sector_size())
            IF ebpb_info.bytes_per_sector < DeviceSectorSize(dev)
            THEN Failed("Panic", "", 0)
            ELSE [st |-> "Ok", why |-> "", n |-> 0,
                  vfat |-> [mounted |-> TRUE,
                            partition |-> [start |-> start,
                                           sector_size |-> ebpb_info.bytes_per_sector],
                            bytes_per_sector |-> ebpb_info.bytes_per_sector,
                            sectors_per_cluster |-> ebpb_info.sectors_per_cluster,
                            sectors_per_fat |-> sector_per_fat,
                            fat_start_sector |-> start + ebpb_info.reserved_sectors,
                            data_start_sector |-> start + ebpb_info.reserved_sectors
                                                  + sector_per_fat,
                            root_dir_cluster |-> ClusterFrom(ebpb_info.root_cluster)]]
        WithEbpb(start, e) ==
            IF e.st # "Ok" THEN Failed(e.st, "", 0)
            ELSE Mounted(start, e.bpb, GetSectorPerFat(e.bpb))
        WithPartition(fat32_part) ==
            IF ~fat32_part.some THEN Failed("NotFound", "", 0)
            ELSE WithEbpb(fat32_part.part.relative_sector,
                          BiosParameterBlockFrom(dev, fat32_part.part.relative_sector))
        OrElse(first, mbr) ==
            IF first.some THEN first ELSE FindPartitionWithType(mbr, SecondPartitionType)
        WithMbr(m) ==
            IF m.st # "Ok" THEN Failed("Mbr", m.st, m.n)
            ELSE WithPartition(OrElse(FindPartitionWithType(m.record, FirstPartitionType),
                                      m.record))
    IN  WithMbr(MasterBootRecordFrom(dev))

\* VFat::from
VFatFrom(dev) ==
    LET Failed(st, why, n) == [st |-> st, why |-> why, n |-> n, vfat |-> NoVFat]
        Mounted(start, ebpb_info, sector_per_fat) ==
            \* CachedDevice::new: assert!(partition.sector_size >= device.sector_size())
            IF ebpb_info.bytes_per_sector < DeviceSectorSize(dev)
            THEN Failed("Panic", "", 0)
            ELSE [st |-> "Ok", why |-> "", n |-> 0,
                  vfat |-> [mounted |-> TRUE,
                            partition |-> [start |-> start,
                                           sector_size |-> ebpb_info.bytes_per_sector],
                            bytes_per_sector |-> ebpb_info.bytes_per_sector,
                            sectors_per_cluster |-> ebpb_info.sectors_per_cluster,
                            sectors_per_fat |-> sector_per_fat,
                            fat_start_sector |-> start + ebpb_info.reserved_sectors,
                            data_start_sector |-> start + ebpb_info.reserved_sectors
                                                  + ebpb_info.fat_num * sector_per_fat,
                            root_dir_cluster |-> ClusterFrom(ebpb_info.root_cluster)]]
        WithEbpb(start, e) ==
            IF e.st # "Ok" THEN Failed(e.st, "", 0)
            ELSE Mounted(start, e.bpb, GetSectorPerFat(e.bpb))
        WithPartition(fat32_part) ==
            IF ~fat32_part.some THEN Failed("NotFound", "", 0)
            ELSE WithEbpb(fat32_part.part.relative_sector,
                          BiosParameterBlockFrom(dev, fat32_part.part.relative_sector))
        OrElse(first, mbr) ==
            IF first.some THEN first ELSE FindPartitionWithType(mbr, SecondPartitionType)
        WithMbr(m) ==
            IF m.st # "Ok" THEN Failed("Mbr", m.st, m.n)
            ELSE WithPartition(OrElse(FindPartitionWithType(m.record, FirstPartitionType),
                                      m.record))
    IN  WithMbr(MasterBootRecordFrom(dev))

(***************************************************************************)
(* cache.rs: CachedDevice.  A sector number below 0 stands for a u64 that  *)
(* wrapped around (2^64 + n): it is beyond every device.  The state is     *)
(* [sectors, asked]: the HashMap `cache`, and for each physical sector the *)
(* number of read_sector calls the boxed device has got for it.            *)
(***************************************************************************)
\* One more read_sector call for physical sector n
Bump(asked, n) ==
    IF n \in DOMAIN asked THEN [asked EXCEPT ![n] = @ + 1] ELSE (n :> 1) @@ asked

\* virtual_to_physical that scales every sector number, the partition's
\* start left out
VirtualToPhysicalScaled(dev, vf, virt) ==
    IF DeviceSectorSize(dev) = vf.partition.sector_size THEN << virt, 1 >>
    ELSE LET factor == vf.partition.sector_size \div DeviceSectorSize(dev)
         IN  << virt * factor, factor >>

\* CachedDevice::virtual_to_physical: <<first physical sector, how many>>.
VirtualToPhysical(dev, vf, virt) ==
    IF DeviceSectorSize(dev) = vf.partition.sector_size THEN << virt, 1 >>
    ELSE IF virt >= 0 /\ virt < vf.partition.start THEN << virt, 1 >>
    ELSE LET factor == vf.partition.sector_size \div DeviceSectorSize(dev)
             logical_offset == virt - vf.partition.start
             physical_offset == logical_offset * factor
         IN  << vf.partition.start + physical_offset, factor >>

\* The loop of ensure_cache: physical sectors device_sector + i .. are read
\* into buf at i * device_sector_size; the first failing read ends it.
RECURSIVE FillSector(_, _, _, _, _, _)
FillSector(dev, device_sector, num, i, buf, asked) ==
    LET size == DeviceSectorSize(dev)
        start == i * size
        Copied(r, now) ==
            IF r.st # "Ok" THEN [st |-> r.st, data |-> buf, asked |-> now]
            ELSE FillSector(dev, device_sector, num, i + 1,
                    [j \in 1..Len(buf) |->
                       IF j > start /\ j <= start + size THEN r.data[j - start]
                       ELSE buf[j]],
                    now)
    IN  IF i >= num THEN [st |-> "Ok", data |-> buf, asked |-> asked]
        ELSE IF start + size > Len(buf) THEN [st |-> "Panic", data |-> buf, asked |-> asked]
        ELSE Copied(DeviceReadSector(dev, device_sector + i),
                    Bump(asked, device_sector + i))

\* ensure_cache without the contains_key test: every call reads the device
EnsureCacheNoLookup(dev, vf, c, sector) ==
    LET Inserted(r) ==
            IF r.st # "Ok" THEN [st |-> r.st, cache |-> [c EXCEPT !.asked = r.asked]]
            ELSE [st |-> "Ok",
                  cache |-> [sectors |-> IF sector \in DOMAIN c.sectors THEN c.sectors
                                         ELSE (sector :> [data |-> r.data, dirty |-> FALSE])
                                              @@ c.sectors,
                             asked |-> r.asked]]
        Filled(p) ==
            Inserted(FillSector(dev, p[1], p[2], 0, Zeros(vf.partition.sector_size),
                                c.asked))
    IN  Filled(VirtualToPhysical(dev, vf, sector))

\* ensure_cache on a map that holds one sector: an insertion drops the rest
EnsureCacheEvicting(dev, vf, c, sector) ==
    LET Inserted(r) ==
            IF r.st # "Ok" THEN [st |-> r.st, cache |-> [c EXCEPT !.asked = r.asked]]
            ELSE [st |-> "Ok",
                  cache |-> [sectors |-> (sector :> [data |-> r.data, dirty |-> FALSE]),
                             asked |-> r.asked]]
        Filled(p) ==
            Inserted(FillSector(dev, p[1], p[2], 0, Zeros(vf.partition.sector_size),
                                c.asked))
    IN  IF sector \in DOMAIN c.sectors THEN [st |-> "Ok", cache |-> c]
        ELSE Filled(VirtualToPhysical(dev, vf, sector))

\* CachedDevice::ensure_cache
EnsureCache(dev, vf, c, sector) ==
    LET Inserted(r) ==
            IF r.st # "Ok" THEN [st |-> r.st, cache |-> [c EXCEPT !.asked = r.asked]]
            ELSE [st |-> "Ok",
                  cache |-> [sectors |-> (sector :> [data |-> r.data, dirty |-> FALSE])
                                         @@ c.sectors,
                             asked |-> r.asked]]
        Filled(p) ==
            Inserted(FillSector(dev, p[1], p[2], 0, Zeros(vf.partition.sector_size),
                                c.asked))
    IN  IF sector \in DOMAIN c.sectors THEN [st |-> "Ok", cache |-> c]
        ELSE Filled(VirtualToPhysical(dev, vf, sector))

\* CachedDevice::get
CacheGet(dev, vf, c, sector) ==
    LET Entry(e) ==
            IF e.st # "Ok" THEN [st |-> e.st, data |-> << >>, cache |-> e.cache]
            ELSE [st |-> "Ok", data |-> e.cache.sectors[sector].data, cache |-> e.cache]
    IN  Entry(EnsureCache(dev, vf, c, sector))

\* CachedDevice::get_mut
CacheGetMut(dev, vf, c, sector) ==
    LET EntryMut(e) ==
            IF e.st # "Ok" THEN [st |-> e.st, data |-> << >>, cache |-> e.cache]
            ELSE [st |-> "Ok", data |-> e.cache.sectors[sector].data, cache |-> e.cache]
    IN  EntryMut(EnsureCache(dev, vf, c, sector))

\* <CachedDevice as BlockDevice>::read_sector into a buffer of buf_len bytes.
CacheReadSector(dev, vf, c, n, buf_len) ==
    LET len == Min(buf_len, vf.partition.sector_size)
        Copied(g) ==
            IF g.st # "Ok" THEN [st |-> g.st, data |-> << >>, cache |-> g.cache]
            ELSE [st |-> "Ok", data |-> SubSeq(g.data, 1, len), cache |-> g.cache]
    IN  Copied(CacheGet(dev, vf, c, n))

(***************************************************************************)
(* fat.rs: FatEntry, kept as its four little-endian bytes                  *)
(***************************************************************************)
\* self.0 & 0x0FFFFFFF
EntryValue(cell) ==
    cell[1] + 256 * cell[2] + 65536 * cell[3] + 16777216 * (cell[4] % 16)

\* FatEntry::status on all 32 bits of the cell: a cell with a bit set in the
\* top nibble is past every range and falls to the last arm
FatStatusNoMask(cell) ==
    LET Status(entry_value) ==
            IF entry_value = 0 THEN [tag |-> "Free", val |-> 0]
            ELSE IF entry_value = 1
                    \/ (entry_value >= 268435440 /\ entry_value <= 268435446)
            THEN [tag |-> "Reserved", val |-> 0]
            ELSE IF entry_value >= 2 /\ entry_value <= 268435439
            THEN [tag |-> "Data", val |-> ClusterFrom(entry_value)]
            ELSE IF entry_value = 268435447 THEN [tag |-> "Bad", val |-> 0]
            ELSE [tag |-> "Eoc", val |-> entry_value]
    IN  IF cell[4] >= 16 THEN [tag |-> "Eoc", val |-> 0 - 1]
        ELSE Status(cell[1] + 256 * cell[2] + 65536 * cell[3] + 16777216 * cell[4])

\* FatEntry::status
FatStatus(cell) ==
    LET Status(entry_value) ==
            IF entry_value = 0 THEN [tag |-> "Free", val |-> 0]
            ELSE IF entry_value = 1
                    \/ (entry_value >= 268435440 /\ entry_value <= 268435446)
            THEN [tag |-> "Reserved", val |-> 0]
            ELSE IF entry_value >= 2 /\ entry_value <= 268435439
            THEN [tag |-> "Data", val |-> ClusterFrom(entry_value)]
            ELSE IF entry_value = 268435447 THEN [tag |-> "Bad", val |-> 0]
            ELSE [tag |-> "Eoc", val |-> entry_value]
    IN  Status(EntryValue(cell))

(***************************************************************************)
(* vfat.rs: geometry, FAT cells, clusters                                  *)
(***************************************************************************)
\* VFat::bytes_per_cluster
BytesPerCluster(vf) == vf.bytes_per_sector * vf.sectors_per_cluster

\* fat_entry without the test against sectors_per_fat
FatEntryNoBound(dev, vf, c, cluster) ==
    LET sector_offset == (4 * cluster) \div vf.bytes_per_sector
        fat_offset == (4 * cluster) % vf.bytes_per_sector
        Cell(g) ==
            IF g.st # "Ok" THEN [st |-> g.st, cell |-> << >>, cache |-> g.cache]
            ELSE [st |-> "Ok", cell |-> SubSeq(g.data, fat_offset + 1, fat_offset + 4),
                  cache |-> g.cache]
    IN  Cell(CacheGet(dev, vf, c, vf.fat_start_sector + sector_offset))

\* VFat::fat_entry
FatEntry(dev, vf, c, cluster) ==
    LET sector_offset == (4 * cluster) \div vf.bytes_per_sector
        fat_offset == (4 * cluster) % vf.bytes_per_sector
        Cell(g) ==
            IF g.st # "Ok" THEN [st |-> g.st, cell |-> << >>, cache |-> g.cache]
            ELSE [st |-> "Ok", cell |-> SubSeq(g.data, fat_offset + 1, fat_offset + 4),
                  cache |-> g.cache]
    IN  IF sector_offset >= vf.sectors_per_fat
        THEN [st |-> "NotFound", cell |-> << >>, cache |-> c]
        ELSE Cell(CacheGet(dev, vf, c, vf.fat_start_sector + sector_offset))

\* VFat::cluster_to_sector.  `cluster - 2` underflows for clusters 0 and 1:
\* a panic with overflow checks, else the sum wraps around 2^64 (a result
\* below 0 here).
ClusterToSector(bld, vf, cluster) ==
    IF cluster < 2 /\ bld = "debug" THEN [st |-> "Panic", sector |-> 0]
    ELSE [st |-> "Ok",
          sector |-> vf.data_start_sector + (cluster - 2) * vf.sectors_per_cluster]

\* The loop of VFat::_read_cluster over the sectors i.. of the cluster.
RECURSIVE ReadClusterSectors(_, _, _, _, _, _, _, _)
ReadClusterSectors(dev, vf, c, start_sector, buf_len, i, acc, bld) ==
    LET size == vf.partition.sector_size
        cur_start == i * size
        cur_end == Min(buf_len, cur_start + size)
        Copied(r) ==
            IF r.st # "Ok" THEN [st |-> r.st, data |-> acc, cache |-> r.cache]
            ELSE IF cur_end = buf_len
            THEN [st |-> "Ok", data |-> acc \o r.data, cache |-> r.cache]
            ELSE ReadClusterSectors(dev, vf, r.cache, start_sector, buf_len, i + 1,
                                    acc \o r.data, bld)
    IN  IF i >= vf.sectors_per_cluster THEN [st |-> "Ok", data |-> acc, cache |-> c]
        ELSE IF cur_start > cur_end THEN [st |-> "Panic", data |-> acc, cache |-> c]
        ELSE Copied(CacheReadSector(dev, vf, c, start_sector + i, cur_end - cur_start))

\* VFat::_read_cluster into a buffer of buf_len bytes
ReadOneCluster(dev, vf, c, cluster, buf_len, bld) ==
    LET From(s) ==
            IF s.st # "Ok" THEN [st |-> s.st, data |-> << >>, cache |-> c]
            ELSE ReadClusterSectors(dev, vf, c, s.sector, buf_len, 0, << >>, bld)
    IN  From(ClusterToSector(bld, vf, cluster))

(***************************************************************************)
(* cluster.rs: ClusterIter, the state [current, eoc_occurred]              *)
(***************************************************************************)
\* ClusterIter::from
ClusterIterFrom(start) == [current |-> start, eoc_occurred |-> FALSE]

\* A variant of ClusterIter::next that does not remember the end of the chain
ClusterIterNextNoLatch(dev, vf, c, it) ==
    LET Item(f, status) ==
            IF f.st # "Ok"
            THEN [item |-> "Err", st |-> f.st, cluster |-> 0, it |-> it, cache |-> f.cache]
            ELSE IF status.tag = "Data"
            THEN [item |-> "Ok", st |-> "Ok", cluster |-> it.current,
                  it |-> [it EXCEPT !.current = status.val], cache |-> f.cache]
            ELSE IF status.tag = "Eoc"
            THEN [item |-> "Ok", st |-> "Ok", cluster |-> it.current,
                  it |-> it, cache |-> f.cache]
            ELSE [item |-> "Err", st |-> "InvalidData", cluster |-> 0, it |-> it,
                  cache |-> f.cache]
        Entry(f) == Item(f, FatStatus(f.cell))
    IN  IF it.eoc_occurred
        THEN [item |-> "None", st |-> "Ok", cluster |-> 0, it |-> it, cache |-> c]
        ELSE Entry(FatEntry(dev, vf, c, it.current))

\* ClusterIter::next.  item is "None", "Ok" (with cluster) or "Err" (with st).
ClusterIterNext(dev, vf, c, it) ==
    LET Item(f, status) ==
            IF f.st # "Ok"
            THEN [item |-> "Err", st |-> f.st, cluster |-> 0, it |-> it, cache |-> f.cache]
            ELSE IF status.tag = "Data"
            THEN [item |-> "Ok", st |-> "Ok", cluster |-> it.current,
                  it |-> [it EXCEPT !.current = status.val], cache |-> f.cache]
            ELSE IF status.tag = "Eoc"
            THEN [item |-> "Ok", st |-> "Ok", cluster |-> it.current,
                  it |-> [it EXCEPT !.eoc_occurred = TRUE], cache |-> f.cache]
            ELSE [item |-> "Err", st |-> "InvalidData", cluster |-> 0, it |-> it,
                  cache |-> f.cache]
        Entry(f) == Item(f, FatStatus(f.cell))
    IN  IF it.eoc_occurred
        THEN [item |-> "None", st |-> "Ok", cluster |-> 0, it |-> it, cache |-> c]
        ELSE Entry(FatEntry(dev, vf, c, it.current))

(***************************************************************************)
(* vfat.rs: VFatExt                                                        *)
(***************************************************************************)
\* The loop of read_chain.  `seen` holds the clusters the iterator has been
\* asked about: meeting one again means the FAT links form a cycle, and the
\* loop never ends (st "Hang").
RECURSIVE ReadChainLoop(_, _, _, _, _, _, _)
ReadChainLoop(dev, vf, c, it, buf, seen, bld) ==
    LET Extended(nx, rd) ==
            IF rd.st # "Ok" THEN [st |-> rd.st, data |-> << >>, cache |-> rd.cache]
            ELSE ReadChainLoop(dev, vf, rd.cache, nx.it,
                               buf \o Pad(rd.data, BytesPerCluster(vf), 0),
                               seen \cup {it.current}, bld)
        Item(nx) ==
            IF nx.item = "None" THEN [st |-> "Ok", data |-> buf, cache |-> nx.cache]
            ELSE IF nx.item = "Err" THEN [st |-> nx.st, data |-> << >>, cache |-> nx.cache]
            ELSE IF it.current \in seen
            THEN [st |-> "Hang", data |-> << >>, cache |-> nx.cache]
            ELSE Extended(nx, ReadOneCluster(dev, vf, nx.cache, nx.cluster,
                                             BytesPerCluster(vf), bld))
    IN  Item(ClusterIterNext(dev, vf, c, it))

\* A variant of read_chain that appends to what the buffer holds
ReadChainAppend(dev, vf, c, start, buf, bld) ==
    ReadChainLoop(dev, vf, c, ClusterIterFrom(start), buf, {}, bld)

\* VFatExt::read_chain: buf.clear(), then the bytes of the whole chain (their
\* number is the length of the buffer)
ReadChain(dev, vf, c, start, buf, bld) ==
    LET Cleared(b) == SubSeq(b, 1, 0)
    IN  ReadChainLoop(dev, vf, c, ClusterIterFrom(start), Cleared(buf), {}, bld)

\* Iterator::skip(n) on its first call: n items are taken and dropped.
RECURSIVE SkipClusters(_, _, _, _, _)
SkipClusters(dev, vf, c, it, n) ==
    LET Item(nx) ==
            IF nx.item = "None" THEN [none |-> TRUE, it |-> nx.it, cache |-> nx.cache]
            ELSE SkipClusters(dev, vf, nx.cache, nx.it, n - 1)
    IN  IF n = 0 THEN [none |-> FALSE, it |-> it, cache |-> c]
        ELSE Item(ClusterIterNext(dev, vf, c, it))

\* The loop of read_cluster.
RECURSIVE ReadClusterLoop(_, _, _, _, _, _, _, _)
ReadClusterLoop(dev, vf, c, it, cur_offset, out, buf_len, bld) ==
    LET cluster_bytes == BytesPerCluster(vf)
        cur_buf_pos == Len(out)
        cur_buf_end == Min(buf_len, cur_buf_pos + cluster_bytes - cur_offset)
        cur_read_len == cur_buf_end - cur_buf_pos
        Copied(nx, rd) ==
            IF rd.st # "Ok" THEN [st |-> rd.st, data |-> out, cache |-> rd.cache]
            ELSE ReadClusterLoop(dev, vf, rd.cache, nx.it, 0,
                    out \o SubSeq(Pad(rd.data, cluster_bytes, 0),
                                  cur_offset + 1, cur_offset + cur_read_len),
                    buf_len, bld)
        Item(nx) ==
            IF nx.item = "None" THEN [st |-> "Ok", data |-> out, cache |-> nx.cache]
            ELSE IF cur_buf_pos >= buf_len
            THEN [st |-> "Ok", data |-> out, cache |-> nx.cache]
            ELSE IF nx.item = "Err" THEN [st |-> nx.st, data |-> out, cache |-> nx.cache]
            ELSE Copied(nx, ReadOneCluster(dev, vf, nx.cache, nx.cluster,
                                           cluster_bytes, bld))
    IN  Item(ClusterIterNext(dev, vf, c, it))

\* A variant of read_cluster that starts in the first cluster whatever the
\* offset
ReadClusterNoSkip(dev, vf, c, cluster, offset, buf_len, bld) ==
    ReadClusterLoop(dev, vf, c, ClusterIterFrom(cluster), offset % BytesPerCluster(vf),
                    << >>, buf_len, bld)

\* VFatExt::read_cluster: up to buf_len bytes of the chain from byte `offset`.
ReadCluster(dev, vf, c, cluster, offset, buf_len, bld) ==
    LET cluster_bytes == BytesPerCluster(vf)
        Skipped(sk) ==
            IF sk.none THEN [st |-> "Ok", data |-> << >>, cache |-> sk.cache]
            ELSE ReadClusterLoop(dev, vf, sk.cache, sk.it, offset % cluster_bytes,
                                 << >>, buf_len, bld)
    IN  Skipped(SkipClusters(dev, vf, c, ClusterIterFrom(cluster),
                             offset \div cluster_bytes))

(***************************************************************************)
(* dir.rs, file.rs, entry.rs: entries.  An Entry is a File or a Dir; of    *)
(* the metadata only the two attribute flags are kept (the timestamps are  *)
(* copied from the slot and never read by the driver).                     *)
(***************************************************************************)
NoEntry ==
    [kind |-> "None", cluster |-> 0, name |-> << >>,
     metadata |-> [is_read_only |-> FALSE, is_hidden |-> FALSE],
     size |-> 0, offset |-> 0]

\* Dir::from_root_cluster
DirFromRootCluster(cluster) ==
    [kind |-> "Dir", cluster |-> cluster, name |-> << >>,
     metadata |-> [is_read_only |-> FALSE, is_hidden |-> FALSE],
     size |-> 0, offset |-> 0]

\* Attributes::has_flag for a one-bit flag
HasFlag(attr, flag) == (attr \div flag) % 2 = 1

\* parse_dir_entry: the variant of a 32-byte slot
ParseDirEntry(ent) ==
    IF ent[12] = 15 THEN "Lfn"
    ELSE IF ent[1] = 229 THEN "Deleted"
    ELSE IF ent[1] = 0 THEN "End"
    ELSE "Regular"

RECURSIVE TakeWhile(_, _)
TakeWhile(xs, stop) ==
    IF xs = << >> \/ Head(xs) \in stop THEN << >>
    ELSE << Head(xs) >> \o TakeWhile(Tail(xs), stop)

\* decode_file_name_utf8_ascii: up to the first 0x00 or 0x20
DecodeFileNameUtf8Ascii(name) == TakeWhile(name, {0, 32})

\* std::char::decode_utf16 followed by unwrap_or(REPLACEMENT_CHARACTER)
RECURSIVE DecodeUtf16(_)
DecodeUtf16(units) ==
    IF units = << >> THEN << >>
    ELSE LET u == Head(units)
         IN  IF u < 55296 \/ u > 57343 THEN << u >> \o DecodeUtf16(Tail(units))
             ELSE IF u >= 56320 THEN << 65533 >> \o DecodeUtf16(Tail(units))
             ELSE IF Len(units) < 2 THEN << 65533 >>
             ELSE IF units[2] < 56320 \/ units[2] > 57343
             THEN << 65533 >> \o DecodeUtf16(Tail(units))
             ELSE << 65536 + (u - 55296) * 1024 + (units[2] - 56320) >>
                     \o DecodeUtf16(Tail(Tail(units)))

\* decode_file_name_utf16: the units up to the first one equal to 0x00 or 0xFF
DecodeFileNameUtf16(name) == DecodeUtf16(TakeWhile(name, {0, 255}))

\* char::is_whitespace
WhiteSpace ==
    (9..13) \cup {32, 133, 160, 5760} \cup (8192..8202) \cup {8232, 8233, 8239, 8287, 12288}

\* str::trim
RECURSIVE TrimStart(_)
TrimStart(str) ==
    IF str # << >> /\ Head(str) \in WhiteSpace THEN TrimStart(Tail(str)) ELSE str

RECURSIVE TrimEnd(_)
TrimEnd(str) ==
    IF str # << >> /\ str[Len(str)] \in WhiteSpace
    THEN TrimEnd(SubSeq(str, 1, Len(str) - 1)) ELSE str

Trim(str) == TrimEnd(TrimStart(str))

\* The u16 at byte offset `at` of a slot
U16At(ent, at) == ent[at + 1] + 256 * ent[at + 2]

\* LfnList::push: (seq_number & 0x0F, name ++ name2 ++ name3) is appended
LfnPush(list, ent) ==
    Append(list,
           [seq |-> ent[1] % 16,
            units |-> [i \in 1..13 |->
                         IF i <= 5 THEN U16At(ent, 1 + 2 * (i - 1))
                         ELSE IF i <= 11 THEN U16At(ent, 14 + 2 * (i - 6))
                         ELSE U16At(ent, 28 + 2 * (i - 12))]])

\* LfnList::decode without the sort: the entries in the order of the disk
SortBySeqNone(list) == list

\* Vec::sort_by on the sequence numbers: a stable sort
RECURSIVE InsertBySeq(_, _)
InsertBySeq(sorted, x) ==
    IF sorted = << >> THEN << x >>
    ELSE IF Head(sorted).seq <= x.seq THEN << Head(sorted) >> \o InsertBySeq(Tail(sorted), x)
    ELSE << x >> \o sorted

RECURSIVE SortBySeq(_)
SortBySeq(list) ==
    IF list = << >> THEN << >>
    ELSE InsertBySeq(SortBySeq(SubSeq(list, 1, Len(list) - 1)), list[Len(list)])

\* LfnList::decode (the list is cleared by the caller's next state)
LfnDecode(list) ==
    LET Units(sorted) == Flatten([i \in 1..Len(sorted) |-> sorted[i].units])
    IN  Trim(DecodeFileNameUtf16(Units(SortBySeq(list))))

\* DirIter::parse_regular_dir
ParseRegularDir(long_file_name, ent) ==
    LET short == DecodeFileNameUtf8Ascii(SubSeq(ent, 1, 8))
        Entry(name, cluster, metadata) ==
            IF HasFlag(ent[12], 16)
            THEN [kind |-> "Dir", cluster |-> cluster, name |-> name,
                  metadata |-> metadata, size |-> 0, offset |-> 0]
            ELSE [kind |-> "File", cluster |-> cluster, name |-> name,
                  metadata |-> metadata,
                  size |-> U16At(ent, 28) + 65536 * U16At(ent, 30), offset |-> 0]
    IN  Entry(IF long_file_name # << >> THEN LfnDecode(long_file_name)
              ELSE IF ent[9] # 0 /\ ent[9] # 32
              THEN short \o << 46 >> \o DecodeFileNameUtf8Ascii(SubSeq(ent, 9, 11))
              ELSE short,
              ClusterFrom((U16At(ent, 20) % 4096) * 65536 + U16At(ent, 26)),
              [is_read_only |-> HasFlag(ent[12], 1), is_hidden |-> HasFlag(ent[12], 2)])

\* Dir::entries: the DirIter over the bytes of the directory's chain
DirEntries(dev, vf, c, d, bld) ==
    LET Iter(r) ==
            [st |-> r.st, cache |-> r.cache,
             it |-> [buf |-> r.data, long_file_name |-> << >>, pos |-> 0]]
    IN  Iter(ReadChain(dev, vf, c, d.cluster, << >>, bld))

\* DirIter::next whose Deleted arm leaves the LFN list as it is
RECURSIVE DirIterNextKeepsLfn(_)
DirIterNextKeepsLfn(it) ==
    LET moved == [it EXCEPT !.pos = it.pos + 32]
        Slot(ent, kind) ==
            CASE kind = "Regular" ->
                    [some |-> TRUE, entry |-> ParseRegularDir(it.long_file_name, ent),
                     it |-> [moved EXCEPT !.long_file_name = << >>]]
              [] kind = "Lfn" ->
                    DirIterNextKeepsLfn([moved EXCEPT !.long_file_name = LfnPush(@, ent)])
              [] kind = "End" -> [some |-> FALSE, entry |-> NoEntry, it |-> moved]
              [] kind = "Deleted" -> DirIterNextKeepsLfn(moved)
        Parsed(ent) == Slot(ent, ParseDirEntry(ent))
    IN  IF it.pos + 32 >= Len(it.buf) THEN [some |-> FALSE, entry |-> NoEntry, it |-> it]
        ELSE Parsed(SubSeq(it.buf, it.pos + 1, it.pos + 32))

\* DirIter::next
RECURSIVE DirIterNext(_)
DirIterNext(it) ==
    LET moved == [it EXCEPT !.pos = it.pos + 32]
        Slot(ent, kind) ==
            CASE kind = "Regular" ->
                    [some |-> TRUE, entry |-> ParseRegularDir(it.long_file_name, ent),
                     it |-> [moved EXCEPT !.long_file_name = << >>]]
              [] kind = "Lfn" ->
                    DirIterNext([moved EXCEPT !.long_file_name = LfnPush(@, ent)])
              [] kind = "End" -> [some |-> FALSE, entry |-> NoEntry, it |-> moved]
              [] kind = "Deleted" ->
                    DirIterNext([moved EXCEPT !.long_file_name = << >>])
        Parsed(ent) == Slot(ent, ParseDirEntry(ent))
    IN  IF it.pos + 32 >= Len(it.buf) THEN [some |-> FALSE, entry |-> NoEntry, it |-> it]
        ELSE Parsed(SubSeq(it.buf, it.pos + 1, it.pos + 32))

\* u8::to_ascii_lowercase on a code point
ToAsciiLower(ch) == IF ch >= 65 /\ ch <= 90 THEN ch + 32 ELSE ch

\* A variant of the comparison that tells upper from lower case
EqExact(a, b) == a = b

\* str::eq_ignore_ascii_case
EqIgnoreAsciiCase(a, b) ==
    /\ Len(a) = Len(b)
    /\ \A i \in 1..Len(a) : ToAsciiLower(a[i]) = ToAsciiLower(b[i])

\* The loop of Dir::find over the iterator: the first entry whose name matches.
RECURSIVE FindLoop(_, _)
FindLoop(it, name) ==
    LET Item(nx) ==
            IF ~nx.some THEN [st |-> "NotFound", entry |-> NoEntry]
            ELSE IF EqIgnoreAsciiCase(nx.entry.name, name)
            THEN [st |-> "Ok", entry |-> nx.entry]
            ELSE FindLoop(nx.it, name)
    IN  Item(DirIterNext(it))

\* Dir::find
DirFind(dev, vf, c, d, name, bld) ==
    LET Found(es, f) == [st |-> f.st, entry |-> f.entry, cache |-> es.cache]
        Searched(es) ==
            IF es.st # "Ok" THEN [st |-> es.st, entry |-> NoEntry, cache |-> es.cache]
            ELSE Found(es, FindLoop(es.it, name))
    IN  Searched(DirEntries(dev, vf, c, d, bld))

(***************************************************************************)
(* std::path::Path::components (Unix): the root marker, a leading `.`,     *)
(* `..` and the normal components; empty components and inner `.` vanish.  *)
(***************************************************************************)
RECURSIVE SplitPath(_, _)
SplitPath(path, piece) ==
    IF path = << >> THEN << piece >>
    ELSE IF Head(path) = 47 THEN << piece >> \o SplitPath(Tail(path), << >>)
    ELSE SplitPath(Tail(path), Append(piece, Head(path)))

RECURSIVE BodyComponents(_)
BodyComponents(pieces) ==
    IF pieces = << >> THEN << >>
    ELSE LET piece == Head(pieces)
         IN  IF piece = << >> \/ piece = << 46 >> THEN BodyComponents(Tail(pieces))
             ELSE IF piece = << 46, 46 >>
             THEN << [kind |-> "ParentDir", name |-> piece] >> \o BodyComponents(Tail(pieces))
             ELSE << [kind |-> "Normal", name |-> piece] >> \o BodyComponents(Tail(pieces))

\* A variant of the component list without the root marker
ComponentsRelative(path) == BodyComponents(SplitPath(path, << >>))

Components(path) ==
    LET pieces == SplitPath(path, << >>)
        has_root == path # << >> /\ path[1] = 47
    IN  (IF has_root THEN << [kind |-> "RootDir", name |-> << >>] >>
         ELSE IF pieces[1] = << 46 >> THEN << [kind |-> "CurDir", name |-> << >>] >>
         ELSE << >>)
        \o BodyComponents(pieces)

(***************************************************************************)
(* vfat.rs: FileSystem for &Shared<VFat>                                   *)
(***************************************************************************)
\* The loop of open over the components left.
RECURSIVE OpenLoop(_, _, _, _, _, _, _)
OpenLoop(dev, vf, c, comps, cur_dir, first, bld) ==
    LET Found(f) ==
            IF f.st # "Ok" THEN [st |-> f.st, entry |-> NoEntry, cache |-> f.cache]
            ELSE OpenLoop(dev, vf, f.cache, Tail(comps), f.entry, first, bld)
        Component(p) ==
            IF p.kind = "RootDir"
            THEN OpenLoop(dev, vf, c, Tail(comps), cur_dir, FALSE, bld)
            ELSE IF first THEN [st |-> "InvalidInput", entry |-> NoEntry, cache |-> c]
            ELSE IF p.kind # "Normal"
            THEN [st |-> "InvalidInput", entry |-> NoEntry, cache |-> c]
            ELSE IF cur_dir.kind = "File"
            THEN [st |-> "NotFound", entry |-> NoEntry, cache |-> c]
            ELSE Found(DirFind(dev, vf, c, cur_dir, p.name, bld))
    IN  IF comps = << >> THEN [st |-> "Ok", entry |-> cur_dir, cache |-> c]
        ELSE Component(Head(comps))

\* FileSystem::open
Open(dev, vf, c, path, bld) ==
    OpenLoop(dev, vf, c, Components(path), DirFromRootCluster(vf.root_dir_cluster),
             TRUE, bld)

(***************************************************************************)
(* file.rs: File.  A position below 0 stands for the u64 an `as u64` cast  *)
(* of a negative i64 gives (2^64 + pos): it is above every file size.      *)
(***************************************************************************)
\* A variant of set_offset that refuses the position `size`
SetOffsetStrict(f, pos) ==
    IF pos < 0 \/ pos >= f.size THEN [st |-> "InvalidInput", n |-> 0, file |-> f]
    ELSE [st |-> "Ok", n |-> pos, file |-> [f EXCEPT !.offset = pos]]

\* set_offset without the test against the size
SetOffsetUnchecked(f, pos) ==
    IF pos < 0 THEN [st |-> "InvalidInput", n |-> 0, file |-> f]
    ELSE [st |-> "Ok", n |-> pos, file |-> [f EXCEPT !.offset = pos]]

\* File::set_offset
SetOffset(f, pos) ==
    IF pos < 0 \/ pos > f.size THEN [st |-> "InvalidInput", n |-> 0, file |-> f]
    ELSE [st |-> "Ok", n |-> pos, file |-> [f EXCEPT !.offset = pos]]

\* A variant of seek whose End(p) counts from the size, not from size - 1
SeekEndAtSize(f, whence, p) ==
    CASE whence = "Start" -> SetOffset(f, p)
      [] whence = "Current" -> SetOffset(f, f.offset + p)
      [] whence = "End" -> SetOffset(f, f.size + p)

\* A variant of seek whose Start(p) counts from the current offset
SeekStartRelative(f, whence, p) ==
    CASE whence = "Start" -> SetOffset(f, f.offset + p)
      [] whence = "Current" -> SetOffset(f, f.offset + p)
      [] whence = "End" -> SetOffset(f, f.size - 1 + p)

\* <File as io::Seek>::seek
Seek(f, whence, p) ==
    CASE whence = "Start" -> SetOffset(f, p)
      [] whence = "Current" -> SetOffset(f, f.offset + p)
      [] whence = "End" -> SetOffset(f, f.size - 1 + p)

\* A variant of read that does not clamp the buffer to the bytes left
ReadWholeBuffer(dev, vf, c, f, buf_len, bld) ==
    LET Moved(r, sk) ==
            IF sk.st # "Ok"
            THEN [st |-> sk.st, n |-> 0, data |-> << >>, file |-> f, cache |-> r.cache]
            ELSE [st |-> "Ok", n |-> Len(r.data), data |-> r.data, file |-> sk.file,
                  cache |-> r.cache]
        Done(r) ==
            IF r.st # "Ok"
            THEN [st |-> r.st, n |-> 0, data |-> << >>, file |-> f, cache |-> r.cache]
            ELSE Moved(r, Seek(f, "Current", Len(r.data)))
    IN  Done(ReadCluster(dev, vf, c, f.cluster, f.offset, buf_len, bld))

\* A variant of read that leaves the offset where it was
ReadNoAdvance(dev, vf, c, f, buf_len, bld) ==
    LET Done(r) ==
            IF r.st # "Ok"
            THEN [st |-> r.st, n |-> 0, data |-> << >>, file |-> f, cache |-> r.cache]
            ELSE [st |-> "Ok", n |-> Len(r.data), data |-> r.data, file |-> f,
                  cache |-> r.cache]
    IN  Done(ReadCluster(dev, vf, c, f.cluster, f.offset,
                         Min(f.size - f.offset, buf_len), bld))

\* <File as io::Read>::read into a buffer of buf_len bytes
Read(dev, vf, c, f, buf_len, bld) ==
    LET max_len == IF f.offset > f.size THEN buf_len ELSE Min(f.size - f.offset, buf_len)
        Moved(r, sk) ==
            IF sk.st # "Ok"
            THEN [st |-> sk.st, n |-> 0, data |-> << >>, file |-> f, cache |-> r.cache]
            ELSE [st |-> "Ok", n |-> Len(r.data), data |-> r.data, file |-> sk.file,
                  cache |-> r.cache]
        Done(r) ==
            IF r.st # "Ok"
            THEN [st |-> r.st, n |-> 0, data |-> << >>, file |-> f, cache |-> r.cache]
            ELSE Moved(r, Seek(f, "Current", Len(r.data)))
    IN  IF f.offset > f.size /\ bld = "debug"
        THEN [st |-> "Panic", n |-> 0, data |-> << >>, file |-> f, cache |-> c]
        ELSE Done(ReadCluster(dev, vf, c, f.cluster, f.offset, max_len, bld))

(***************************************************************************)
(* The callers: which arguments the operations are tried with              *)
(***************************************************************************)
\* Every sequence over `alphabet` of length at most n
RECURSIVE SeqsUpTo(_, _)
SeqsUpTo(alphabet, n) ==
    IF n = 0 THEN {<< >>}
    ELSE LET shorter == SeqsUpTo(alphabet, n - 1)
         IN  shorter \cup {Append(q, ch) : q \in shorter, ch \in alphabet}

\* Paths over the characters / . D X of at most MaxPathLen characters, and
\* the paths of the small disk's entries in several spellings.
MaxPathLen == 3

SmallPaths ==
    SeqsUpTo({47, 46, 68, 88}, MaxPathLen)
    \cup { << 47, 65, 66 >>,                            \* /AB
           << 47, 97, 98 >>,                            \* /ab
           << 65, 66 >>,                                \* AB
           << 47, 65, 66, 47, 88 >>,                    \* /AB/X
           << 47, 99, 100 >>,                           \* /cd
           << 47, 67, 68, 126, 49 >>,                   \* /CD~1
           << 47, 68, 47, 88 >>,                        \* /D/X
           << 68, 47, 88 >>,                            \* D/X
           << 47, 68, 47, 83, 72 >>,                    \* /D/SH
           << 47, 68, 47, 66, 65, 68 >>,                \* /D/BAD
           << 47, 68, 47, 89 >>,                        \* /D/Y
           << 47, 83, 85, 66 >>,                        \* /SUB
           << 47, 115, 117, 98, 47, 88 >>,              \* /sub/X
           << 47, 83, 85, 66, 47, 88, 47, 120 >>,       \* /SUB/X/x
           << 47, 83, 85, 66, 47, 46, 46 >>,            \* /SUB/..
           << 47, 47, 68, 47, 46, 47, 120, 47 >>,       \* //D/./x/
           << 110, 111, 110, 101 >> }                   \* none

\* The names Dir::find is asked for
SmallNames ==
    { << 88 >>, << 120 >>, << 89 >>, << 65, 66 >>, << 97, 66 >>, << 99, 100 >>,
      << 67, 68, 126, 49 >>, << 68 >>, << 83, 85, 66 >>, << 46 >>, << 46, 46 >>,
      << 83, 72 >>, << 66, 65, 68 >>, << >> }

\* The files a caller opens to read and seek, and what else it opens meanwhile
FilePaths(d) ==
    IF d = "small"
    THEN { << 47, 65, 66 >>, << 47, 99, 100 >>, << 47, 68, 47, 88 >>,
           << 47, 68, 47, 83, 72 >>, << 47, 68, 47, 66, 65, 68 >> }
    ELSE { << 47, 68, 65, 84, 65, 46, 66, 73, 78 >> }   \* /DATA.BIN

OtherPaths(d) ==
    IF d = "small"
    THEN { << 47, 83, 85, 66, 47, 120 >> }              \* /SUB/x
    ELSE { << 47, 86, 69, 82, 89, 95 >> }               \* /VERY_

\* Seek targets: within MaxSeek of the start, of the first cluster boundary
\* and of the end of the file (below 0 and beyond the size included).
MaxSeek == 1

\* How many clusters a caller takes from one ClusterIter
MaxYield == 5

\* How many times a caller lets the device be asked for one sector
MaxAsks == 2

\* How many times the medium is rewritten from outside
MaxEpoch == 1

SeekTargets(vf, f) ==
    LET b == BytesPerCluster(vf)
    IN  (-MaxSeek..MaxSeek)
        \cup (IF b < f.size THEN (b - MaxSeek)..b ELSE {})
        \cup ((f.size - MaxSeek)..(f.size + MaxSeek))

\* The SeekFrom argument that aims at target t
SeekArg(f, whence, t) ==
    CASE whence = "Start" -> t
      [] whence = "Current" -> t - f.offset
      [] whence = "End" -> t - f.size + 1

\* Buffer lengths: up to a seek target ahead, or 2048 bytes
ReadLens(vf, f) ==
    {t - f.offset : t \in {u \in SeekTargets(vf, f) : u >= f.offset}} \cup {2048}

(***************************************************************************)
(* The state machine.  `result` holds what the running operation returns   *)
(* until the caller takes it (Return); operations start when it is empty.  *)
(***************************************************************************)
Result(op, arg, whence, p, st, why, n, data, entry, pre) ==
    [op |-> op, arg |-> arg, whence |-> whence, p |-> p, st |-> st, why |-> why,
     n |-> n, data |-> data, entry |-> entry, pre |-> pre]

NoResult == Result("none", << >>, "", 0, "Ok", "", 0, << >>, NoEntry, NoEntry)

\* The caller's record of a round trip on the file it holds: the first read of
\* `size` bytes from offset 0 (reads, st, n, data), whether something else was
\* opened through the cache since (between), whether the last seek was a
\* successful seek(Start(0)) (rewound) and whether the read just made is the
\* read of `size` bytes that followed it (again).
NoRead ==
    [reads |-> 0, between |-> FALSE, rewound |-> FALSE, again |-> FALSE,
     st |-> "Ok", n |-> 0, data |-> << >>]

\* No ClusterIter; `yielded` is the history of the clusters an iterator has
\* yielded
\* `yielded` lists the clusters the iterator has yielded, `failed` says
\* whether it has yielded an error
NoIter ==
    [active |-> FALSE, current |-> 0, eoc_occurred |-> FALSE, yielded |-> << >>,
     failed |-> FALSE]

\* `stopped` says whether next() has returned None
NoDirIter ==
    [active |-> FALSE, buf |-> << >>, long_file_name |-> << >>, pos |-> 0,
     stopped |-> FALSE]

EmptyCache ==
    [sectors |-> [n \in {} |-> [data |-> << >>, dirty |-> FALSE]],
     asked |-> [n \in {} |-> 0]]

DeviceOf(d) == Disk(d)

InitOn(devices) ==
    /\ device \in devices
    /\ build \in {"debug", "release"}
    /\ vfat = NoVFat
    /\ cache = EmptyCache
    /\ file = NoEntry
    /\ dir = NoEntry
    /\ result = NoResult
    /\ panicked = FALSE
    /\ fullRead = NoRead
    /\ startCluster = -1
    /\ iter = NoIter
    /\ dirIter = NoDirIter

Idle == ~panicked /\ result = NoResult

\* The caller takes the returned value.
Return ==
    /\ ~panicked /\ result # NoResult
    /\ result' = NoResult
    /\ UNCHANGED <<device, build, vfat, cache, file, dir, panicked, fullRead, startCluster, iter,
                   dirIter>>

\* VFat::from(device)
Mount ==
    /\ Idle /\ ~vfat.mounted
    /\ LET Done(r) ==
            /\ vfat' = r.vfat
            /\ result' = Result("from", << >>, "", 0, r.st, r.why, r.n, << >>,
                                NoEntry, NoEntry)
            /\ panicked' = (r.st = "Panic")
       IN  Done(VFatFrom(device))
    /\ UNCHANGED <<device, build, cache, file, dir, fullRead, startCluster, iter, dirIter>>

\* MasterBootRecord::from(device): what is returned is the error, or the
\* record (its partition entries and its signature)
ReadMbr ==
    /\ Idle /\ ~vfat.mounted
    /\ LET Done(r) ==
            result' = IF r.st = "Ok"
                      THEN Result("mbr", r.record.partitions, "", r.record.signature,
                                  "Ok", "", 0, << >>, NoEntry, NoEntry)
                      ELSE Result("mbr", << >>, "", 0, r.st, "", r.n, << >>,
                                  NoEntry, NoEntry)
       IN  Done(MasterBootRecordFrom(device))
    /\ UNCHANGED <<device, build, vfat, cache, file, dir, panicked, fullRead, startCluster, iter,
                   dirIter>>

\* The caller gives up on a device that has failed MaxAsks reads of a sector
AsksBounded == \A n \in DOMAIN cache.asked : cache.asked[n] < MaxAsks

\* Cluster::from(raw_num): the Cluster the caller goes on to work with
ClusterOf(raw_num) ==
    /\ Idle /\ vfat.mounted /\ startCluster = -1
    /\ startCluster' = ClusterFrom(raw_num)
    /\ UNCHANGED <<device, build, vfat, cache, file, dir, result, panicked, fullRead, iter,
                   dirIter>>

\* cluster.iter(vfat)
IterFrom ==
    /\ Idle /\ startCluster >= 0 /\ ~iter.active
    /\ LET Made(it) ==
            iter' = [active |-> TRUE, current |-> it.current,
                     eoc_occurred |-> it.eoc_occurred, yielded |-> << >>,
                     failed |-> FALSE]
       IN  Made(ClusterIterFrom(startCluster))
    /\ UNCHANGED <<device, build, vfat, cache, file, dir, result, panicked, fullRead,
                   startCluster, dirIter>>

\* iter.next(): result.why is the kind of the item ("None", "Ok", "Err"),
\* result.arg the iterator's <<current, eoc_occurred, failed>> before the call
IterNext ==
    /\ Idle /\ iter.active /\ Len(iter.yielded) < MaxYield /\ AsksBounded
    /\ LET Done(nx) ==
            /\ iter' = [active |-> TRUE, current |-> nx.it.current,
                        eoc_occurred |-> nx.it.eoc_occurred,
                        yielded |-> IF nx.item = "Ok" THEN Append(iter.yielded, nx.cluster)
                                    ELSE iter.yielded,
                        failed |-> iter.failed \/ nx.item = "Err"]
            /\ cache' = nx.cache
            /\ result' = Result("next", << iter.current, IF iter.eoc_occurred THEN 1 ELSE 0,
                                           IF iter.failed THEN 1 ELSE 0 >>,
                                "", 0, nx.st, nx.item, nx.cluster, << >>, NoEntry, NoEntry)
       IN  Done(ClusterIterNext(device, vfat, cache,
                                [current |-> iter.current,
                                 eoc_occurred |-> iter.eoc_occurred]))
    /\ UNCHANGED <<device, build, vfat, file, dir, panicked, fullRead, startCluster, dirIter>>

\* vfat.read_chain(cluster, &mut buf) on a buffer that holds `buf`: result.data
\* is the buffer afterwards, result.n the number returned; st "Hang" says
\* that the call never returns
ReadChainOp(buf) ==
    /\ Idle /\ startCluster >= 0 /\ AsksBounded
    /\ LET Done(r) ==
            /\ cache' = r.cache
            /\ result' = Result("read_chain", buf, "", 0, r.st, "", Len(r.data), r.data,
                                NoEntry, NoEntry)
            /\ panicked' = (r.st \in {"Panic", "Hang"})
       IN  Done(ReadChain(device, vfat, cache, startCluster, buf, build))
    /\ UNCHANGED <<device, build, vfat, file, dir, fullRead, startCluster, iter, dirIter>>

\* vfat.read_cluster(cluster, offset, &mut buf) with buf.len() = len:
\* result.arg is <<offset>>, result.p is len
ReadClusterOp(offset, len) ==
    /\ Idle /\ startCluster >= 0 /\ AsksBounded
    /\ LET Done(r) ==
            /\ r.st # "Hang"
            /\ cache' = r.cache
            /\ result' = Result("read_cluster", << offset >>, "", len, r.st, "",
                                Len(r.data), r.data, NoEntry, NoEntry)
            /\ panicked' = (r.st = "Panic")
       IN  Done(ReadCluster(device, vfat, cache, startCluster, offset, len, build))
    /\ UNCHANGED <<device, build, vfat, file, dir, fullRead, startCluster, iter, dirIter>>

\* device.get(sector) on the CachedDevice of the mounted volume
CacheGetOp(sector) ==
    /\ Idle /\ vfat.mounted /\ AsksBounded
    /\ LET Done(r) ==
            /\ cache' = r.cache
            /\ result' = Result("get", << sector >>, "", 0, r.st, "", Len(r.data), r.data,
                                NoEntry, NoEntry)
       IN  Done(CacheGet(device, vfat, cache, sector))
    /\ UNCHANGED <<device, build, vfat, file, dir, panicked, fullRead, startCluster, iter, dirIter>>

\* device.get_mut(sector)
CacheGetMutOp(sector) ==
    /\ Idle /\ vfat.mounted /\ AsksBounded
    /\ LET Done(r) ==
            /\ cache' = r.cache
            /\ result' = Result("get_mut", << sector >>, "", 0, r.st, "", Len(r.data),
                                r.data, NoEntry, NoEntry)
       IN  Done(CacheGetMut(device, vfat, cache, sector))
    /\ UNCHANGED <<device, build, vfat, file, dir, panicked, fullRead, startCluster, iter, dirIter>>

\* device.read_sector(n, &mut buf) with a buffer of buf_len bytes: result.n
\* is the number returned, result.data the bytes written to the buffer
CacheReadSectorOp(n, buf_len) ==
    /\ Idle /\ vfat.mounted /\ AsksBounded
    /\ LET Done(r) ==
            /\ cache' = r.cache
            /\ result' = Result("read_sector", << n >>, "", buf_len, r.st, "", Len(r.data),
                                r.data, NoEntry, NoEntry)
       IN  Done(CacheReadSector(device, vfat, cache, n, buf_len))
    /\ UNCHANGED <<device, build, vfat, file, dir, panicked, fullRead, startCluster, iter, dirIter>>

\* The medium is rewritten behind the driver's back: every data sector that
\* holds no directory changes its bytes.
RewriteMedium ==
    /\ Idle /\ vfat.mounted /\ device.epoch < MaxEpoch
    /\ device' = [device EXCEPT !.epoch = @ + 1]
    /\ UNCHANGED <<build, vfat, cache, file, dir, result, panicked, fullRead,
                   startCluster, iter, dirIter>>

\* dir.entries()?.next() on the directory the caller holds: result.n is 1
\* and result.entry the entry when there is one
EntriesNext ==
    /\ Idle /\ vfat.mounted /\ dir.kind = "Dir"
    /\ LET First(e, nx) ==
            /\ e.st # "Hang"
            /\ cache' = e.cache
            /\ result' = Result("entries", << >>, "", 0, e.st, "",
                                IF e.st = "Ok" /\ nx.some THEN 1 ELSE 0, << >>,
                                IF e.st = "Ok" THEN nx.entry ELSE NoEntry, dir)
            /\ panicked' = (e.st = "Panic")
           Listed(e) == First(e, IF e.st = "Ok" THEN DirIterNext(e.it)
                                 ELSE [some |-> FALSE, entry |-> NoEntry, it |-> e.it])
       IN  Listed(DirEntries(device, vfat, cache, dir, build))
    /\ UNCHANGED <<device, build, vfat, file, dir, fullRead, startCluster, iter, dirIter>>

\* FatEntry(cell).status() on the four little-endian bytes of the cell:
\* result.why is the variant, result.n its payload
StatusOp(cell) ==
    /\ Idle /\ ~vfat.mounted
    /\ LET Done(s) ==
            result' = Result("status", cell, "", 0, "Ok", s.tag, s.val, << >>,
                             NoEntry, NoEntry)
       IN  Done(FatStatus(cell))
    /\ UNCHANGED <<device, build, vfat, cache, file, dir, panicked, fullRead,
                   startCluster, iter, dirIter>>

\* vfat.fat_entry(cluster): result.data is the four bytes of the entry
FatEntryOp(cluster) ==
    /\ Idle /\ vfat.mounted /\ AsksBounded
    /\ LET Done(r) ==
            /\ cache' = r.cache
            /\ result' = Result("fat_entry", << cluster >>, "", 0, r.st, "", Len(r.cell),
                                r.cell, NoEntry, NoEntry)
       IN  Done(FatEntry(device, vfat, cache, cluster))
    /\ UNCHANGED <<device, build, vfat, file, dir, panicked, fullRead, startCluster, iter, dirIter>>

\* Iterator::collect on a DirIter: next() until it returns None
RECURSIVE DirCollect(_)
DirCollect(it) ==
    LET More(nx) == IF nx.some THEN << nx.entry >> \o DirCollect(nx.it) ELSE << >>
    IN  More(DirIterNext(it))

\* dir.entries()?.collect() on the directory the caller holds: result.data is
\* the list of the entries, result.n their number
EntriesAll ==
    /\ Idle /\ vfat.mounted /\ dir.kind = "Dir"
    /\ LET Collected(e, list) ==
            /\ e.st # "Hang"
            /\ cache' = e.cache
            /\ result' = Result("collect", << >>, "", 0, e.st, "", Len(list), list,
                                NoEntry, dir)
            /\ panicked' = (e.st = "Panic")
           Listed(e) == Collected(e, IF e.st = "Ok" THEN DirCollect(e.it) ELSE << >>)
       IN  Listed(DirEntries(device, vfat, cache, dir, build))
    /\ UNCHANGED <<device, build, vfat, file, dir, fullRead, startCluster, iter, dirIter>>

\* dir.entries() on the directory the caller holds; the caller keeps the
\* DirIter
DirEntriesOp ==
    /\ Idle /\ vfat.mounted /\ dir.kind = "Dir" /\ ~dirIter.active
    /\ LET Made(e) ==
            /\ e.st # "Hang"
            /\ cache' = e.cache
            /\ result' = Result("entries_iter", << >>, "", 0, e.st, "", 0, << >>,
                                NoEntry, dir)
            /\ panicked' = (e.st = "Panic")
            /\ dirIter' = IF e.st # "Ok" THEN dirIter
                          ELSE [active |-> TRUE, buf |-> e.it.buf,
                                long_file_name |-> e.it.long_file_name,
                                pos |-> e.it.pos, stopped |-> FALSE]
       IN  Made(DirEntries(device, vfat, cache, dir, build))
    /\ UNCHANGED <<device, build, vfat, file, dir, fullRead, startCluster, iter>>

\* it.next() on the DirIter the caller holds: result.n is 1 and result.entry
\* the entry when there is one; result.arg is <<pos, stopped>> before the call
DirNextOp ==
    /\ Idle /\ dirIter.active
    /\ LET Done(nx) ==
            /\ dirIter' = [active |-> TRUE, buf |-> nx.it.buf,
                           long_file_name |-> nx.it.long_file_name, pos |-> nx.it.pos,
                           stopped |-> dirIter.stopped \/ ~nx.some]
            /\ result' = Result("dir_next",
                                << dirIter.pos, IF dirIter.stopped THEN 1 ELSE 0 >>,
                                "", 0, "Ok", "", IF nx.some THEN 1 ELSE 0, << >>,
                                nx.entry, NoEntry)
       IN  Done(DirIterNext([buf |-> dirIter.buf,
                             long_file_name |-> dirIter.long_file_name,
                             pos |-> dirIter.pos]))
    /\ UNCHANGED <<device, build, vfat, cache, file, dir, panicked, fullRead,
                   startCluster, iter>>

\* The caller keeps the Entry an operation returned (it holds one at a time).
Keep(r) ==
    /\ file' = IF r.st # "Ok" THEN file
               ELSE IF r.entry.kind = "File" THEN r.entry ELSE NoEntry
    /\ dir' = IF r.st # "Ok" THEN dir
              ELSE IF r.entry.kind = "Dir" THEN r.entry ELSE NoEntry
    /\ fullRead' = IF r.st = "Ok" THEN NoRead ELSE fullRead

\* The caller drops the Entry an operation returned.
Drop ==
    /\ UNCHANGED <<file, dir>>
    /\ fullRead' = [fullRead EXCEPT !.between = (fullRead.reads > 0)]

\* (&vfat).open(path)
OpenAs(path, keep) ==
    /\ Idle /\ vfat.mounted
    /\ LET Done(r) ==
            /\ r.st # "Hang"
            /\ cache' = r.cache
            /\ result' = Result("open", path, "", 0, r.st, "", 0, << >>, r.entry, NoEntry)
            /\ panicked' = (r.st = "Panic")
            /\ IF keep THEN Keep(r) ELSE Drop
       IN  Done(Open(device, vfat, cache, path, build))
    /\ UNCHANGED <<device, build, vfat, startCluster, iter, dirIter>>

OpenPath(path) == OpenAs(path, TRUE)

\* The first open of a caller that goes on to work with one file
OpenFile(path) == file.kind = "None" /\ OpenAs(path, TRUE)

OpenOther(path) == OpenAs(path, FALSE)

\* dir.find(name) on the directory the caller holds
FindName(name) ==
    /\ Idle /\ vfat.mounted /\ dir.kind = "Dir"
    /\ LET Done(r) ==
            /\ r.st # "Hang"
            /\ cache' = r.cache
            /\ result' = Result("find", name, "", 0, r.st, "", 0, << >>, r.entry, dir)
            /\ panicked' = (r.st = "Panic")
            /\ Keep(r)
       IN  Done(DirFind(device, vfat, cache, dir, name, build))
    /\ UNCHANGED <<device, build, vfat, startCluster, iter, dirIter>>

\* file.seek(SeekFrom::whence(p))
SeekFile(whence, p) ==
    /\ Idle /\ file.kind = "File"
    /\ LET Done(r) ==
            /\ file' = r.file
            /\ result' = Result("seek", << >>, whence, p, r.st, "", r.n, << >>,
                                NoEntry, file)
            /\ fullRead' = [fullRead EXCEPT
                              !.rewound = fullRead.reads = 1 /\ whence = "Start"
                                          /\ p = 0 /\ r.st = "Ok",
                              !.again = FALSE]
       IN  Done(Seek(file, whence, p))
    /\ UNCHANGED <<device, build, vfat, cache, dir, panicked, startCluster, iter, dirIter>>

\* file.read(&mut buf) with buf.len() = len
ReadFile(len) ==
    /\ Idle /\ file.kind = "File"
    /\ LET Done(r) ==
            /\ r.st # "Hang"
            /\ file' = r.file
            /\ cache' = r.cache
            /\ result' = Result("read", << >>, "", len, r.st, "", r.n, r.data,
                                NoEntry, file)
            /\ panicked' = (r.st = "Panic")
            /\ fullRead' =
                  IF fullRead.reads = 0 /\ file.offset = 0 /\ len = file.size
                  THEN [reads |-> 1, between |-> FALSE, rewound |-> FALSE,
                        again |-> FALSE, st |-> r.st, n |-> r.n, data |-> r.data]
                  ELSE [fullRead EXCEPT
                          !.again = fullRead.rewound /\ len = file.size,
                          !.rewound = FALSE]
       IN  Done(Read(device, vfat, cache, file, len, build))
    /\ UNCHANGED <<device, build, vfat, dir, startCluster, iter, dirIter>>

\* unimplemented!(): the operation panics
Unimplemented(op) ==
    /\ Idle
    /\ result' = Result(op, << >>, "", 0, "Panic", "", 0, << >>, NoEntry, file)
    /\ panicked' = TRUE
    /\ UNCHANGED <<device, build, vfat, cache, file, dir, fullRead, startCluster, iter, dirIter>>

CreateFile == vfat.mounted /\ Unimplemented("create_file")

CreateDir == vfat.mounted /\ Unimplemented("create_dir")

Rename == vfat.mounted /\ Unimplemented("rename")

Remove == vfat.mounted /\ Unimplemented("remove")

FileWrite == file.kind = "File" /\ Unimplemented("write")

FileFlush == file.kind = "File" /\ Unimplemented("flush")

FileSync == file.kind = "File" /\ Unimplemented("sync")

\* ---- the filesystem surface on the small disk ----
Init == InitOn({DeviceOf("small")})

Next ==
    \/ Mount
    \/ Return
    \/ \E path \in SmallPaths : OpenPath(path)
    \/ \E name \in SmallNames : FindName(name)
    \/ CreateFile
    \/ CreateDir
    \/ Rename
    \/ Remove
    \/ FileWrite
    \/ FileFlush
    \/ FileSync

Spec == Init /\ [][Next]_vars

\* ---- the file surface: files of the small and of the scenario disk ----
InitFile == InitOn({DeviceOf("small"), SmallDisk16, DeviceOf("scenario")})

NextFile ==
    \/ Mount
    \/ Return
    \/ \E path \in FilePaths(device.name) : OpenFile(path)
    \/ \E path \in OtherPaths(device.name) : OpenOther(path)
    \/ \E whence \in {"Start", "Current", "End"}, t \in SeekTargets(vfat, file) :
            /\ whence = "Start" => t >= 0
            /\ SeekFile(whence, SeekArg(file, whence, t))
    \/ \E len \in ReadLens(vfat, file) : ReadFile(len)
    \/ FileWrite
    \/ FileFlush
    \/ FileSync

SpecFile == InitFile /\ [][NextFile]_vars

\* ---- mounting: every MBR with partition types drawn from PartTypes ----
PartTypes == {0, 11, 12, 131}

MbrWith(types) ==
    [signature |-> 43605,
     partitions |-> [i \in 1..4 |-> MbrEntry(IF i = 1 THEN 128 ELSE 0, types[i], i)]]

InitMount == InitOn({[PartsDisk EXCEPT !.mbr = MbrWith(t)] : t \in [1..4 -> PartTypes]})

NextMount ==
    \/ Mount
    \/ Return

SpecMount == InitMount /\ [][NextMount]_vars

\* ---- reading the MBR: every signature of Signatures with every choice of
\*      boot indicators from BootIndicators ----
Signatures == {43605, 0, 21930, 43604}

BootIndicators == {0, 128, 66}

MbrOf(signature, bootable) ==
    [signature |-> signature,
     partitions |-> [i \in 1..4 |-> MbrEntry(bootable[i], IF i = 1 THEN 12 ELSE 0, i)]]

InitMbr ==
    InitOn({[PartsDisk EXCEPT !.mbr = MbrOf(s, b)] :
                s \in Signatures, b \in [1..4 -> BootIndicators]})

NextMbr ==
    \/ ReadMbr
    \/ Mount
    \/ Return

SpecMbr == InitMbr /\ [][NextMbr]_vars

\* ---- cluster chains: the chains disk and the small disk ----
\* The numbers Cluster::from is given: every cell of the FAT, the first number
\* past it, and a number with bits set in the top nibble
RawClusters == (0..16) \cup {268435456 + 3}

\* Offsets and lengths: within MaxSeek of the first cluster boundaries
ChainOffsets(vf) ==
    {k * BytesPerCluster(vf) + d : k \in 0..3, d \in (-MaxSeek)..MaxSeek} \cap Nat

ChainLens(vf) ==
    {k * BytesPerCluster(vf) + d : k \in 0..2, d \in (-MaxSeek)..MaxSeek} \cap Nat

InitChain == InitOn({DeviceOf("chains"), DeviceOf("small")})

NextChain ==
    \/ Mount
    \/ Return
    \/ \E raw_num \in RawClusters : ClusterOf(raw_num)
    \/ IterFrom
    \/ IterNext
    \/ \E buf \in {<< >>, << 1, 2, 3 >>} : ReadChainOp(buf)
    \/ \E offset \in ChainOffsets(vfat), len \in ChainLens(vfat) : ReadClusterOp(offset, len)

SpecChain == InitChain /\ [][NextChain]_vars

\* ---- the sector cache: the wide disk (whole and with a bad sector) and
\*      the small disk ----
\* Logical sectors: one below the partition, one of the FAT, data sectors,
\* the sector that is half past the end of the wide disk, one beyond it
CacheSectors == {0, 2, 5, 6, 7}

CacheBufLens == {0, 16, 100}

\* Clusters whose FAT entry is asked for: in the first and in the second half
\* of the FAT, its last cell, and cells past its end
FatClusters == {0, 3, 7, 8, 15, 16, 40}

InitCache == InitOn({DeviceOf("wide"), WideDiskBad, WideDiskAt3, DeviceOf("small")})

NextCache ==
    \/ Mount
    \/ Return
    \/ \E sector \in CacheSectors : CacheGetOp(sector)
    \/ \E sector \in CacheSectors : CacheGetMutOp(sector)
    \/ \E n \in CacheSectors, buf_len \in CacheBufLens : CacheReadSectorOp(n, buf_len)
    \/ \E cluster \in FatClusters : FatEntryOp(cluster)
    \/ RewriteMedium

SpecCache == InitCache /\ [][NextCache]_vars

\* ---- long names: root directories with up to MaxLfn LFN entries ----
MaxLfn == 2

\* The LFN entries the directories are made of: the two of "VERY_" / "LONG"
\* (the second with the last-entry bit 0x40), a full payload, a full payload
\* whose sequence number 0x11 is 1 once masked, a name in blanks, an unpaired
\* surrogate, a name with U+00FF in it, and a payload padded with 0xFFFF
\* without a 0x0000 before it
LfnParts ==
    { [seq |-> 1, units |-> LfnUnits(<<86, 69, 82, 89, 95>>)],
      [seq |-> 66, units |-> LfnUnits(<<76, 79, 78, 71>>)],
      [seq |-> 1, units |-> [i \in 1..13 |-> 64 + i]],
      [seq |-> 17, units |-> [i \in 1..13 |-> 120]],
      [seq |-> 2, units |-> LfnUnits(<<32, 97, 32>>)],
      [seq |-> 3, units |-> LfnUnits(<<55296, 97>>)],
      [seq |-> 2, units |-> LfnUnits(<<97, 255, 98>>)],
      [seq |-> 1, units |-> [i \in 1..13 |-> IF i <= 2 THEN 96 + i ELSE 65535]] }

\* The sequences of distinct entries, of 1 to MaxLfn entries
LfnLists ==
    {q \in SeqsUpTo(LfnParts, MaxLfn) :
        q # << >> /\ \A i, j \in 1..Len(q) : q[i] = q[j] => i = j}

InitLfn == InitOn({LfnDisk(q) : q \in LfnLists})

NextLfn ==
    \/ Mount
    \/ Return
    \/ OpenPath(<< 47 >>)
    \/ EntriesNext

SpecLfn == InitLfn /\ [][NextLfn]_vars

\* ---- FAT cells: the values around every boundary of FatEntry::status,
\*      under every value of TopNibbles in the 4 unused bits ----
LowValues ==
    (0..3) \cup {4660, 268435438, 268435439, 268435440, 268435441, 268435445,
                 268435446, 268435447, 268435448, 268435449, 268435455}

TopNibbles == {0, 1, 8, 15}

FatCells ==
    {[LE32(v) EXCEPT ![4] = @ + 16 * top] : top \in TopNibbles, v \in LowValues}

InitFat == InitOn({DeviceOf("small")})

NextFat ==
    \/ Return
    \/ \E cell \in FatCells : StatusOp(cell)

SpecFat == InitFat /\ [][NextFat]_vars

\* ---- sector sizes: the wide disk with every logical sector size of
\*      SectorSizes in its EBPB, over 32-byte device sectors ----
SectorSizes == {16, 32, 48, 64, 96}

InitSize ==
    InitOn({[WideDisk EXCEPT !.ebpb = [n \in {1} |-> Ebpb(b, 1, 1, 1, 0, 1, 2)]] :
               b \in SectorSizes})

NextSize ==
    \/ Mount
    \/ Return
    \/ \E sector \in {0, 1, 2, 3} : CacheGetOp(sector)

SpecSize == InitSize /\ [][NextSize]_vars

\* ---- directories: every root directory of six slots ----
SlotKinds == {"R", "L", "D", "E"}

InitDir == InitOn({DirDisk(kinds) : kinds \in [1..6 -> SlotKinds]})

NextDir ==
    \/ Mount
    \/ Return
    \/ OpenPath(<< 47 >>)
    \/ EntriesAll

SpecDir == InitDir /\ [][NextDir]_vars

\* ---- a held directory iterator: the root directories of six slots drawn
\*      from Regular, LFN and End ----
InitDirIter == InitOn({DirDisk(kinds) : kinds \in [1..6 -> {"R", "L", "E"}]})

NextDirIter ==
    \/ Mount
    \/ Return
    \/ OpenPath(<< 47 >>)
    \/ DirEntriesOp
    \/ DirNextOp

SpecDirIter == InitDirIter /\ [][NextDirIter]_vars

(***************************************************************************)
(* Properties.  They read the device image directly (GroundTruth...) or    *)
(* restate an operation through other operations; `result.pre` is the      *)
(* handle before the operation, `file` and `dir` the handles after it.     *)
(***************************************************************************)
MutationOps == {"create_file", "create_dir", "rename", "remove", "write", "flush", "sync"}

\* ---- open ----
\* C1: open(path) fails with InvalidInput and returns no entry for every
\* path that does not begin with `/`, the empty path included.
C1_OpenRelativeIsInvalidInput ==
    (result.op = "open" /\ (result.arg = << >> \/ result.arg[1] # 47))
        => (result.st = "InvalidInput" /\ result.entry = NoEntry)

\* The path /n1/.../nk of a list of names
JoinPath(names) ==
    IF names = << >> THEN << 47 >>
    ELSE Flatten([i \in 1..Len(names) |-> << 47 >> \o names[i]])

\* The names n1..nk of a path that begins with `/`
PathNames(path) == IF path = << 47 >> THEN << >> ELSE Tail(SplitPath(path, << >>))

IsPlainAbsolute(path) ==
    /\ path # << >> /\ path[1] = 47
    /\ JoinPath(PathNames(path)) = path
    /\ \A i \in 1..Len(PathNames(path)) :
            PathNames(path)[i] \notin {<< >>, << 46 >>, << 46, 46 >>}

\* The root cluster as the EBPB of the mounted partition has it
RootClusterOnDisk == device.ebpb[vfat.partition.start].root_cluster

\* Dir::find applied to each name in order
RECURSIVE WalkByFind(_, _)
WalkByFind(names, cur) ==
    IF names = << >> THEN [st |-> "Ok", entry |-> cur]
    ELSE IF cur.kind = "File" THEN [st |-> "NotFound", entry |-> NoEntry]
    ELSE LET f == DirFind(device, vfat, cache, cur, Head(names), build)
         IN  IF f.st # "Ok" THEN [st |-> f.st, entry |-> NoEntry]
             ELSE WalkByFind(Tail(names), f.entry)

\* C2: for an absolute path /n1/.../nk, open returns what Dir::find applied
\* to n1, .., nk in order reaches from the root directory (whose first cluster
\* is the EBPB root cluster), and otherwise fails with NotFound: a component
\* is missing, or a file is met while components remain.
C2_OpenWalksByFind ==
    (result.op = "open" /\ IsPlainAbsolute(result.arg))
        => LET w == WalkByFind(PathNames(result.arg),
                               [NoEntry EXCEPT !.kind = "Dir",
                                               !.cluster = RootClusterOnDisk])
           IN  /\ result.st = w.st
               /\ result.entry = w.entry
               /\ result.st \in {"Ok", "NotFound"}

\* /sub/X: found through the differently spelled directory, and the file x
\* that precedes the directory X there
C2_Witness ==
    /\ result.op = "open" /\ result.arg = << 47, 115, 117, 98, 47, 88 >>
    /\ result.st = "Ok" /\ result.entry.kind = "File" /\ result.entry.name = << 120 >>

\* ---- Dir::find ----
\* What Dir::entries() yields, in order
RECURSIVE Collect(_)
Collect(it) ==
    LET nx == DirIterNext(it)
    IN  IF ~nx.some THEN << >> ELSE << nx.entry >> \o Collect(nx.it)

FoldUpper(ch) == IF ch \in 97..122 THEN ch - 32 ELSE ch

SameIgnoringCase(a, b) ==
    /\ Len(a) = Len(b)
    /\ \A i \in 1..Len(a) : FoldUpper(a[i]) = FoldUpper(b[i])

\* C3: Dir::find(X) returns the first element of entries(), in on-disk order,
\* whose name equals X ignoring ASCII case, and NotFound when there is none.
C3_FindIsFirstMatch ==
    result.op = "find"
        => LET es == DirEntries(device, vfat, cache, result.pre, build)
               list == Collect(es.it)
               hits == {i \in 1..Len(list) : SameIgnoringCase(list[i].name, result.arg)}
           IN  es.st = "Ok"
                 => IF hits = {} THEN result.st = "NotFound" /\ result.entry = NoEntry
                    ELSE /\ result.st = "Ok"
                         /\ result.entry = list[CHOOSE i \in hits : \A j \in hits : i <= j]

\* find("X") in /SUB returns the file x, listed before the directory X
C3_Witness ==
    /\ result.op = "find" /\ result.arg = << 88 >> /\ result.pre.cluster = 8
    /\ result.st = "Ok" /\ result.entry.kind = "File" /\ result.entry.name = << 120 >>

\* ---- File::seek ----
\* The absolute target of a seek
SeekTarget(f, whence, p) ==
    CASE whence = "Start" -> p
      [] whence = "Current" -> f.offset + p
      [] whence = "End" -> f.size - 1 + p

\* C4: a seek to target t succeeds, sets the offset to t and returns t exactly
\* when 0 <= t <= size; every other target fails with InvalidInput (and the
\* offset stays).
C4_SeekWithinSize ==
    result.op = "seek"
        => LET t == SeekTarget(result.pre, result.whence, result.p)
           IN  IF 0 <= t /\ t <= result.pre.size
               THEN result.st = "Ok" /\ result.n = t /\ file.offset = t
               ELSE result.st = "InvalidInput" /\ file.offset = result.pre.offset

\* seek to `size` itself, on a file that is not empty, from elsewhere
C4_Witness ==
    /\ result.op = "seek" /\ result.st = "Ok" /\ result.n = result.pre.size
    /\ result.pre.size > 0 /\ result.pre.offset # result.pre.size

\* C5: seek(End(p)) returns size - 1 + p when that lies in [0, size] and fails
\* with InvalidInput otherwise: on a 1500-byte file End(0) returns 1499,
\* End(1) returns 1500 and End(2) fails.
C5_SeekEnd ==
    (result.op = "seek" /\ result.whence = "End")
        => /\ LET t == result.pre.size - 1 + result.p
              IN  IF 0 <= t /\ t <= result.pre.size
                  THEN result.st = "Ok" /\ result.n = t
                  ELSE result.st = "InvalidInput"
           /\ result.pre.size = 1500
                => CASE result.p = 0 -> result.st = "Ok" /\ result.n = 1499
                     [] result.p = 1 -> result.st = "Ok" /\ result.n = 1500
                     [] result.p = 2 -> result.st = "InvalidInput"
                     [] OTHER -> TRUE

C5_Witness ==
    /\ result.op = "seek" /\ result.whence = "End" /\ result.p = 0
    /\ result.pre.size = 1500 /\ result.n = 1499

\* ---- File::read ----
\* The clusters of the chain that starts at `cluster`, as the FAT on the
\* device links them; -1 marks a chain that is none (it starts below 2 or
\* runs into a free, reserved or bad cell).
RECURSIVE GroundTruthChain(_, _)
GroundTruthChain(cluster, steps) ==
    IF cluster < 2 \/ cluster \notin DOMAIN device.fat \/ steps = 0 THEN << -1 >>
    ELSE LET cell == device.fat[cluster] % 268435456
         IN  IF cell >= 268435448 THEN << cluster >>
             ELSE IF cell >= 2 /\ cell <= 268435439
             THEN << cluster >> \o GroundTruthChain(cell, steps - 1)
             ELSE << -1 >>

\* The bytes of cluster c on the device
GroundTruthCluster(c) ==
    Flatten([i \in 1..device.cluster_sectors |->
               DiskSectorBytes(device, device.data_start
                                       + (c - 2) * device.cluster_sectors + i - 1)])

\* The bytes of a file's chain on the device
GroundTruthData(f) ==
    LET chain == GroundTruthChain(f.cluster, Cardinality(DOMAIN device.fat))
    IN  IF \E i \in 1..Len(chain) : chain[i] = -1 THEN << >>
        ELSE Flatten([i \in 1..Len(chain) |-> GroundTruthCluster(chain[i])])

\* C6: for a file whose chain holds at least `size` bytes, read(dst) at offset
\* o returns n = min(size - o, len(dst)) bytes, they are bytes [o, o + n) of
\* the chain's data, and the offset becomes o + n (so a read at o = size
\* returns 0 bytes and leaves the offset at size).
C6_ReadReturnsChainBytes ==
    (result.op = "read" /\ Len(GroundTruthData(result.pre)) >= result.pre.size)
        => LET o == result.pre.offset
               n == IF result.pre.size - o <= result.p THEN result.pre.size - o
                    ELSE result.p
           IN  /\ result.st = "Ok"
               /\ result.n = n
               /\ result.data = SubSeq(GroundTruthData(result.pre), o + 1, o + n)
               /\ file.offset = o + n

\* a read that takes bytes from both clusters of a two-cluster file
C6_Witness ==
    /\ result.op = "read" /\ result.st = "Ok"
    /\ Len(GroundTruthData(result.pre)) >= result.pre.size
    /\ result.pre.offset < BytesPerCluster(vfat)
    /\ result.pre.offset + result.n > BytesPerCluster(vfat)

\* The file of declared size 1500 on the clusters 10 -> 11 of 4096 bytes
IsScenarioFile(f) ==
    /\ f.kind = "File" /\ f.size = 1500 /\ f.cluster = 10
    /\ BytesPerCluster(vfat) = 4096
    /\ device.fat[10] = 11 /\ device.fat[11] = EocCell

\* C7 (as the code has it): on that file a first read from offset 0 into a
\* 2048-byte buffer yields 1500 bytes, the declared size, and leaves the
\* offset at 1500; the read into a 2048-byte buffer that follows yields 0.
C7_ScenarioReadYieldsSize ==
    (result.op = "read" /\ result.p = 2048 /\ IsScenarioFile(result.pre))
        => /\ result.pre.offset = 0
                => result.st = "Ok" /\ result.n = 1500 /\ file.offset = 1500
           /\ result.pre.offset = 1500
                => result.st = "Ok" /\ result.n = 0 /\ file.offset = 1500

C7_Witness ==
    /\ result.op = "read" /\ result.p = 2048 /\ IsScenarioFile(result.pre)
    /\ result.pre.offset = 0 /\ result.n = 1500 /\ Len(result.data) = 1500

\* C7 as stated: the first read yields 2048 bytes and the next one 0.
C7_ScenarioReadYields2048 ==
    (result.op = "read" /\ result.p = 2048 /\ IsScenarioFile(result.pre))
        => /\ result.pre.offset = 0 => result.st = "Ok" /\ result.n = 2048
           /\ result.pre.offset = 1500 => result.st = "Ok" /\ result.n = 0

\* C8: a read of `size` bytes from offset 0, then seek(Start(0)), then a read
\* of `size` bytes again return the same count and the same bytes, also when
\* something else was read through the cache in between.
C8_RereadIsIdentical ==
    (result.op = "read" /\ fullRead.again)
        => /\ result.st = fullRead.st
           /\ result.n = fullRead.n
           /\ result.data = fullRead.data

\* the second read of a two-cluster file, after another file was opened
C8_Witness ==
    /\ result.op = "read" /\ fullRead.again /\ fullRead.between
    /\ result.st = "Ok" /\ result.n = result.pre.size
    /\ result.n > BytesPerCluster(vfat)

\* ---- mutations ----
\* C9: every mutation entry point returns an Unsupported error, never panics,
\* and leaves the filesystem, the cache and the file offsets unchanged.
C9_MutationsReturnUnsupported ==
    result.op \in MutationOps
        => result.st = "Unsupported" /\ ~panicked /\ file = result.pre

\* ---- VFat::from ----
\* C10: VFat::from mounts the first partition entry whose type is 0x0B or
\* 0x0C, and fails with NotFound only when none of the four has such a type.
C10_MountsFirstFat32Partition ==
    result.op = "from"
        => LET hits == {i \in 1..4 : device.mbr.partitions[i].partition_type \in {11, 12}}
           IN  IF hits = {} THEN result.st = "NotFound"
               ELSE /\ result.st = "Ok"
                    /\ vfat.partition.start =
                         device.mbr.partitions[CHOOSE i \in hits : \A j \in hits : i <= j]
                             .relative_sector

\* ---- MasterBootRecord::from ----
\* The indices (from 0) of the partition entries whose boot indicator is
\* neither 0x00 nor 0x80
UnknownIndicators ==
    {i \in 0..3 : device.mbr.partitions[i + 1].bootable \notin {0, 128}}

\* C11: MasterBootRecord::from returns BadSignature whenever the signature is
\* not 0xAA55, whatever the partition entries hold; with a valid signature it
\* returns UnknownBootIndicator(i) for the lowest i whose boot indicator is
\* neither 0x00 nor 0x80; otherwise it returns the record.
C11_MbrValidation ==
    result.op = "mbr"
        => IF device.mbr.signature # 43605
           THEN result.st = "BadSignature"
           ELSE IF UnknownIndicators # {}
           THEN /\ result.st = "UnknownBootIndicator"
                /\ result.n \in UnknownIndicators
                /\ \A i \in UnknownIndicators : result.n <= i
           ELSE /\ result.st = "Ok"
                /\ result.arg = device.mbr.partitions
                /\ result.p = device.mbr.signature

\* only partition 2 has the boot indicator 0x42
C11_Witness ==
    /\ result.op = "mbr" /\ result.st = "UnknownBootIndicator" /\ result.n = 2
    /\ UnknownIndicators = {2}

\* ---- VFat::from: the geometry ----
\* The partition entry VFat::from mounts on the disks of InitFile, and the
\* EBPB at its first sector
MountedEntry == device.mbr.partitions[1]

MountedEbpb == device.ebpb[MountedEntry.relative_sector]

SectorsPerFatOnDisk ==
    IF MountedEbpb.sector_per_fat_2 # 0 THEN MountedEbpb.sector_per_fat_2
    ELSE MountedEbpb.sector_per_fat_4

GeometryOnDisk ==
    /\ vfat.sectors_per_fat = SectorsPerFatOnDisk
    /\ vfat.fat_start_sector = MountedEntry.relative_sector + MountedEbpb.reserved_sectors
    /\ vfat.data_start_sector =
            vfat.fat_start_sector + MountedEbpb.fat_num * SectorsPerFatOnDisk
    /\ (MountedEntry.relative_sector = 2048 /\ MountedEbpb.reserved_sectors = 32
         /\ MountedEbpb.fat_num = 2 /\ SectorsPerFatOnDisk = 256)
            => vfat.fat_start_sector = 2080 /\ vfat.data_start_sector = 2592

\* C12: after a successful mount fat_start_sector = relative_sector +
\* reserved_sectors and data_start_sector = fat_start_sector + fat_num *
\* sectors_per_fat, sectors_per_fat being the 2-byte field if nonzero, else the
\* 4-byte field (2080 and 2592 for the scenario's numbers); no open, read or
\* seek changes these values afterwards.
C12_Geometry ==
    /\ [](vfat.mounted => GeometryOnDisk)
    /\ [][vfat.mounted => vfat' = vfat]_vars

\* a read on the mounted scenario disk that returned bytes
C12_Witness ==
    /\ vfat.mounted /\ vfat.fat_start_sector = 2080 /\ vfat.data_start_sector = 2592
    /\ result.op = "read" /\ result.st = "Ok" /\ result.n > 0

\* ---- VFatExt::read_chain ----
\* Whether every sector of cluster c can be read from the device
ClusterReadable(c) ==
    \A i \in 0..(device.cluster_sectors - 1) :
        LET n == device.data_start + (c - 2) * device.cluster_sectors + i
        IN  n \in 0..(device.sectors - 1) /\ n \notin device.bad

\* What a walk along the FAT cells of the device from cluster c meets: the
\* clusters up to the end-of-chain cell ("Ok"), or the first obstacle: a
\* cluster with no cell in the FAT ("NotFound"), a Free, Reserved or Bad cell
\* ("InvalidData"), a cluster whose sectors cannot be read ("Io"); "Hang" when
\* the links have not ended after `steps` clusters.
RECURSIVE ExpectedChain(_, _)
ExpectedChain(c, steps) ==
    IF c \notin DOMAIN device.fat THEN [st |-> "NotFound", clusters |-> << >>]
    ELSE LET cell == device.fat[c] % 268435456
             Rest(r) == [st |-> r.st, clusters |-> << c >> \o r.clusters]
         IN  IF cell < 2 \/ (cell >= 268435440 /\ cell <= 268435447)
             THEN [st |-> "InvalidData", clusters |-> << >>]
             ELSE IF ~ClusterReadable(c) THEN [st |-> "Io", clusters |-> << >>]
             ELSE IF cell >= 268435448 THEN [st |-> "Ok", clusters |-> << c >>]
             ELSE IF steps = 0 THEN [st |-> "Hang", clusters |-> << >>]
             ELSE Rest(ExpectedChain(cell, steps - 1))

ExpectedFrom(c) == ExpectedChain(c, Cardinality(DOMAIN device.fat))

\* C13: read_chain(start, buf) discards what buf held and, for a chain of k
\* clusters, leaves buf equal to the bytes of the sectors of its clusters in
\* chain order and returns k * bytes_per_cluster; a FAT or sector error ends
\* the call with that error.  (Start clusters from 2 on; chains that end.)
C13_ReadChainConcatenates ==
    (result.op = "read_chain" /\ startCluster >= 2)
        => LET e == ExpectedFrom(startCluster)
           IN  CASE e.st = "Ok" ->
                      /\ result.st = "Ok"
                      /\ result.data = Flatten([i \in 1..Len(e.clusters) |->
                                                  GroundTruthCluster(e.clusters[i])])
                      /\ result.n = Len(e.clusters) * BytesPerCluster(vfat)
                 [] e.st = "Hang" -> TRUE
                 [] OTHER -> result.st = e.st

\* the chain 3 -> 4 -> 5 read into a buffer that held three bytes
C13_Witness ==
    /\ result.op = "read_chain" /\ result.st = "Ok" /\ result.arg = << 1, 2, 3 >>
    /\ startCluster = 3 /\ result.n = 3 * BytesPerCluster(vfat)

\* ---- VFatExt::read_cluster ----
\* The bytes of the chain that starts at cluster c, from the device
ChainBytes(c) ==
    LET e == ExpectedFrom(c)
    IN  Flatten([i \in 1..Len(e.clusters) |-> GroundTruthCluster(e.clusters[i])])

Max(a, b) == IF a > b THEN a ELSE b

\* C14: for a start cluster with a well-formed chain of L bytes, an offset and
\* a destination of m bytes, read_cluster returns n = min(m, max(0, L - offset))
\* and fills dst[0..n) with bytes offset..offset+n of the chain; a short read
\* happens only when the chain ends before dst is full.
C14_ReadClusterIsSliceOfChain ==
    (result.op = "read_cluster" /\ startCluster >= 2
                                /\ ExpectedFrom(startCluster).st = "Ok")
        => LET whole  == ChainBytes(startCluster)
               offset == result.arg[1]
               m      == result.p
               n      == Min(m, Max(0, Len(whole) - offset))
           IN  /\ result.st = "Ok"
               /\ result.n = n
               /\ result.data = SubSeq(whole, offset + 1, offset + n)
               /\ (result.n < m => offset + result.n >= Len(whole))

\* a read that starts inside the first cluster of 3 -> 4 -> 5, crosses a
\* cluster boundary and stops because the destination is full
C14_Witness ==
    /\ result.op = "read_cluster" /\ result.st = "Ok" /\ startCluster = 3
    /\ result.arg[1] % BytesPerCluster(vfat) # 0
    /\ result.arg[1] < BytesPerCluster(vfat)
    /\ result.n = result.p /\ result.n > BytesPerCluster(vfat)

\* a short read: the chain ends before the destination is full
C14_WitnessShort ==
    /\ result.op = "read_cluster" /\ result.st = "Ok" /\ startCluster = 3
    /\ result.n > 0 /\ result.n < result.p

\* ---- ClusterIter ----
\* The kind of the FAT cell of cluster c on the device, and its link
CellOf(c) == device.fat[c] % 268435456

CellKind(c) ==
    IF CellOf(c) >= 268435448 THEN "Eoc"
    ELSE IF CellOf(c) >= 2 /\ CellOf(c) < 268435440 THEN "Data"
    ELSE "Invalid"

\* C19: iterating from cluster c yields c = c0, c1, ..., ck in order, where
\* the FAT cell of each ci before the last is Data(c(i+1)) and the cell of ck
\* is Eoc; after ck every further call returns None.  When the cell of the
\* current cluster is Free, Reserved or Bad the step gives InvalidData.
C19_IterFollowsFat ==
    /\ iter.active =>
          LET y == iter.yielded
          IN  /\ y # << >> => y[1] = startCluster
              /\ \A i \in 1..(Len(y) - 1) :
                     CellKind(y[i]) = "Data" /\ CellOf(y[i]) = y[i + 1]
              /\ iter.eoc_occurred => (y # << >> /\ CellKind(y[Len(y)]) = "Eoc")
              /\ ~iter.eoc_occurred =>
                     iter.current = (IF y = << >> THEN startCluster
                                     ELSE CellOf(y[Len(y)]))
              /\ (~iter.eoc_occurred /\ y # << >>) => CellKind(y[Len(y)]) = "Data"
    /\ result.op = "next" =>
          LET current == result.arg[1]
          IN  IF result.arg[2] = 1 THEN result.why = "None"
              ELSE current \in DOMAIN device.fat =>
                     IF CellKind(current) = "Invalid"
                     THEN result.why = "Err" /\ result.st = "InvalidData"
                     ELSE result.why = "Ok" /\ result.n = current

\* the chain 3 -> 4 -> 5 was yielded in full and a further call returned None
C19_Witness ==
    /\ iter.active /\ iter.eoc_occurred /\ iter.yielded = << 3, 4, 5 >>
    /\ result.op = "next" /\ result.why = "None"

\* a step on a cluster whose cell is Free, after one cluster was yielded
C19_WitnessInvalid ==
    /\ iter.active /\ iter.yielded = << 8 >>
    /\ result.op = "next" /\ result.why = "Err" /\ result.st = "InvalidData"

\* C20: whatever the FAT holds (links that form a cycle included), the chain
\* iterator yields finitely many items and read_chain returns.  On a FAT
\* that does not change, an iterator that yields a cluster a second time is
\* back in a state it was in before and yields for ever; read_chain with
\* st "Hang" is a call that never returns.
C20_ChainIterationIsFinite ==
    /\ result.op = "read_chain" => result.st # "Hang"
    /\ iter.active =>
          \A i, j \in 1..Len(iter.yielded) :
             iter.yielded[i] = iter.yielded[j] => i = j

\* ---- CachedDevice ----
\* The physical sectors of the device that back logical sector n
BackingSectors(n) ==
    LET factor == vfat.partition.sector_size \div device.sector_size
    IN  IF factor = 1 \/ n < vfat.partition.start THEN {n}
        ELSE {vfat.partition.start + (n - vfat.partition.start) * factor + i :
                 i \in 0..(factor - 1)}

\* Whether the device can read every physical sector behind logical sector n
LogicalReadable(n) ==
    \A q \in BackingSectors(n) : q \in 0..(device.sectors - 1) /\ q \notin device.bad

\* The bytes of logical sector n on the device as it is now
LogicalBytes(n) ==
    LET factor == vfat.partition.sector_size \div device.sector_size
        first == CHOOSE q \in BackingSectors(n) : \A o \in BackingSectors(n) : q <= o
    IN  Pad(Flatten([i \in 1..Cardinality(BackingSectors(n)) |->
                        DiskSectorBytes(device, first + i - 1)]),
            vfat.partition.sector_size, 0)

Asked(q) == IF q \in DOMAIN cache.asked THEN cache.asked[q] ELSE 0

C16_NoEvictionNoRefresh ==
    [][/\ DOMAIN cache.sectors \subseteq DOMAIN cache'.sectors
       /\ \A n \in DOMAIN cache.sectors : cache'.sectors[n].data = cache.sectors[n].data
       /\ \A n \in DOMAIN cache'.sectors \ DOMAIN cache.sectors :
             cache'.sectors[n].data = LogicalBytes(n)
       /\ (result' # result /\ result'.op \in {"get", "read_sector"}
              /\ result'.arg[1] \in DOMAIN cache.sectors)
            => /\ result'.st = "Ok"
               /\ result'.n = (IF result'.op = "get" THEN vfat.partition.sector_size
                                ELSE Min(result'.p, vfat.partition.sector_size))
               /\ result'.data = SubSeq(cache.sectors[result'.arg[1]].data, 1, result'.n)
      ]_vars

\* a get returns bytes the device no longer holds, with another sector cached
C16_Witness ==
    /\ result.op = "get" /\ result.st = "Ok" /\ device.epoch > 0
    /\ result.data # LogicalBytes(result.arg[1])
    /\ Cardinality(DOMAIN cache.sectors) >= 2

\* ---- long file names ----
\* The sequence number LfnList works with
Masked(part) == part.seq % 16

DistinctSeqs(parts) ==
    \A i, j \in 1..Len(parts) : Masked(parts[i]) = Masked(parts[j]) => i = j

\* The entries of a set in ascending sequence number (equal masked numbers:
\* by the raw number), whatever order they have on the disk
RECURSIVE AscendingOf(_)
AscendingOf(S) ==
    IF S = {} THEN << >>
    ELSE LET Key(x) == Masked(x) * 256 + x.seq
             least == CHOOSE x \in S : \A y \in S : Key(x) <= Key(y)
         IN  << least >> \o AscendingOf(S \ {least})

\* The payloads of the LFN entries of the disk, concatenated in ascending
\* sequence number
AscendingUnits ==
    LET sorted == AscendingOf({device.lfn[i] : i \in 1..Len(device.lfn)})
    IN  Flatten([i \in 1..Len(sorted) |-> sorted[i].units])

\* The root directory holds LFN(0x42, "LONG"), LFN(1, "VERY_"), short entry
VeryLongExample ==
    /\ device.name = "lfn" /\ Len(device.lfn) = 2
    /\ device.lfn[1] = [seq |-> 66, units |-> LfnUnits(<<76, 79, 78, 71>>)]
    /\ device.lfn[2] = [seq |-> 1, units |-> LfnUnits(<<86, 69, 82, 89, 95>>)]

\* C17 as stated: the name of a regular entry preceded by LFN entries does not
\* depend on their order on the disk: it is the UTF-16 decode of their
\* payloads concatenated in ascending sequence number (raw_seq & 0x0F), and
\* LFN(seq 2, "LONG"), LFN(seq 1, "VERY_"), short entry gives "VERY_LONG".
C17_NameIsAscendingDecode ==
    (result.op = "entries" /\ device.name = "lfn")
        => /\ result.st = "Ok" /\ result.n = 1
           /\ result.entry.name = Trim(DecodeFileNameUtf16(AscendingUnits))
           /\ VeryLongExample =>
                 result.entry.name = <<86, 69, 82, 89, 95, 76, 79, 78, 71>>

\* C17, amended: when the masked sequence numbers are pairwise distinct the
\* name does not depend on the order on the disk: it is the decode of the
\* payloads concatenated in ascending sequence number, cut at the first
\* terminator of the concatenation; LFN(seq 2, "LONG"), LFN(seq 1, "VERY_"
\* ended by 0x0000) gives "VERY_".
C17_NameIsAscendingDecodeDistinct ==
    (result.op = "entries" /\ device.name = "lfn" /\ DistinctSeqs(device.lfn))
        => /\ result.st = "Ok" /\ result.n = 1
           /\ result.entry.name = Trim(DecodeFileNameUtf16(AscendingUnits))
           /\ VeryLongExample => result.entry.name = <<86, 69, 82, 89, 95>>

\* two entries lie on the disk in descending sequence number and both
\* payloads are part of the name
C17_Witness ==
    /\ result.op = "entries" /\ device.name = "lfn" /\ Len(device.lfn) = 2
    /\ Masked(device.lfn[1]) > Masked(device.lfn[2])
    /\ Len(result.entry.name) > 13

\* C18: long-name assembly cuts the flattened units at the first unit equal
\* to 0x0000 or 0xFFFF (no other unit ends the name, and 0xFFFF padding never
\* appears in a name), replaces undecodable units with U+FFFD and trims
\* surrounding whitespace.
C18_TruncatesAtZeroOrFFFF ==
    (result.op = "entries" /\ device.name = "lfn")
        => LET pushed == [i \in 1..Len(device.lfn) |->
                            [seq |-> Masked(device.lfn[i]), units |-> device.lfn[i].units]]
               sorted == SortBySeq(pushed)
               units  == Flatten([i \in 1..Len(sorted) |-> sorted[i].units])
           IN  /\ result.st = "Ok" /\ result.n = 1
               /\ result.entry.name = Trim(DecodeUtf16(TakeWhile(units, {0, 65535})))
               /\ \A i \in 1..Len(result.entry.name) : result.entry.name[i] # 65535

\* ---- CachedDevice: the dirty flag ----
\* C21: get_mut(n) marks the cache entry of sector n dirty (dirty is true
\* after the call), whereas get(n) leaves the dirty flag of every entry
\* unchanged.
C21_GetMutMarksDirty ==
    [][(result' # result /\ result'.st = "Ok")
         => /\ result'.op = "get_mut" => cache'.sectors[result'.arg[1]].dirty
            /\ result'.op = "get" =>
                  \A n \in DOMAIN cache.sectors :
                     cache'.sectors[n].dirty = cache.sectors[n].dirty
      ]_vars

\* C22: the chain iterator latches its terminal state: after it has yielded
\* an error (a failure reading the FAT, or InvalidData) the next call returns
\* None, exactly as after the end of the chain.
C22_ErrorIsLatched ==
    (result.op = "next" /\ result.arg[3] = 1) => result.why = "None"

\* ---- FatEntry::status ----
\* C23: the status of a cell depends only on its low 28 bits v: Free for
\* v = 0; Reserved for v = 1 or 0x0FFFFFF0 <= v <= 0x0FFFFFF6; Data(v) for
\* 2 <= v <= 0x0FFFFFEF; Bad for v = 0x0FFFFFF7; Eoc for v >= 0x0FFFFFF8.
\* The classes are exhaustive and exclusive; every Data(next) has next >= 2.
C23_StatusByLow28Bits ==
    result.op = "status"
        => LET v == result.arg[1] + 256 * result.arg[2] + 65536 * result.arg[3]
                       + 16777216 * (result.arg[4] % 16)
           IN  /\ result.why \in {"Free", "Reserved", "Data", "Bad", "Eoc"}
               /\ result.why = "Free" <=> v = 0
               /\ result.why = "Reserved" <=> (v = 1 \/ (v >= 268435440 /\ v <= 268435446))
               /\ result.why = "Data" <=> (v >= 2 /\ v <= 268435439)
               /\ result.why = "Bad" <=> v = 268435447
               /\ result.why = "Eoc" <=> (v >= 268435448 /\ v <= 268435455)
               /\ result.why = "Data" => (result.n = v /\ result.n >= 2)

\* a cell with bits set in the unused top nibble is a Data link
C23_Witness ==
    /\ result.op = "status" /\ result.arg[4] >= 128
    /\ result.why = "Data" /\ result.n = 268435439

\* ---- VFat::fat_entry ----
\* C24: fat_entry(c) returns NotFound, without reading any sector, when
\* floor(4c / bytes_per_sector) >= sectors_per_fat; otherwise it returns the
\* little-endian u32 at byte offset (4c mod bytes_per_sector) of logical
\* sector fat_start_sector + floor(4c / bytes_per_sector), fetched through
\* the cache (or the error of that fetch).
C24_FatEntryLookup ==
    [][(result' # result /\ result'.op = "fat_entry")
         => LET c == result'.arg[1]
                sector_offset == (4 * c) \div vfat.bytes_per_sector
                at == (4 * c) % vfat.bytes_per_sector
                sector == vfat.fat_start_sector + sector_offset
            IN  IF sector_offset >= vfat.sectors_per_fat
                THEN result'.st = "NotFound" /\ cache' = cache
                ELSE IF LogicalReadable(sector)
                THEN /\ result'.st = "Ok"
                     /\ sector \in DOMAIN cache'.sectors
                     /\ result'.data = SubSeq(cache'.sectors[sector].data, at + 1, at + 4)
                     /\ result'.data = LE32(device.fat[c])
                ELSE result'.st = "Io" /\ sector \notin DOMAIN cache'.sectors
      ]_vars

\* the entry of cluster 8 lies in the second physical sector of the one
\* logical sector of the wide disk's FAT
C24_Witness ==
    /\ result.op = "fat_entry" /\ result.st = "Ok" /\ result.arg = << 8 >>
    /\ vfat.bytes_per_sector = 64 /\ result.data = LE32(EocCell)

\* a cluster past the end of the FAT
C24_WitnessNotFound ==
    result.op = "fat_entry" /\ result.st = "NotFound" /\ result.arg = << 16 >>

\* ---- CachedDevice::virtual_to_physical ----
\* The physical sectors a map gives, as a set
PhysicalRange(p) == {p[1] + i : i \in 0..(p[2] - 1)}

C26_LogicalSizeIsMultiple ==
    /\ vfat.mounted =>
          /\ vfat.partition.sector_size > 0
          /\ vfat.partition.sector_size % device.sector_size = 0
          /\ \A n \in DOMAIN cache.sectors :
                n >= vfat.partition.start =>
                   cache.sectors[n].data = LogicalBytes(n)
                   /\ Cardinality(BackingSectors(n)) * device.sector_size
                         = vfat.partition.sector_size
    /\ (result.op = "from" /\ device.ebpb[1].bytes_per_sector < device.sector_size)
          => result.st = "Panic"

\* ---- Dir::entries ----
\* The places of the slots before the first End slot (all six when there is
\* none), and those of them that hold a regular entry
BeforeEnd ==
    {i \in 1..6 : \A j \in 1..i : device.slots[j] # "E"}

RegularPlaces == {i \in BeforeEnd : device.slots[i] = "R"}

\* The k-th smallest element of a set of numbers
RECURSIVE Ascending(_)
Ascending(S) ==
    IF S = {} THEN << >>
    ELSE LET least == CHOOSE x \in S : \A y \in S : x <= y
         IN  << least >> \o Ascending(S \ {least})

\* C27: entries() yields exactly one Entry, in the order of the disk, for
\* every Regular slot of the directory's chain bytes that precedes the first
\* End slot (or the end of the chain bytes), a Regular slot in the final 32
\* bytes of the chain included, and nothing for LFN, Deleted and End slots.
C27_OneEntryPerRegularSlot ==
    (result.op = "collect" /\ device.name = "dir")
        => /\ result.st = "Ok"
           /\ [k \in 1..Len(result.data) |-> result.data[k].cluster]
                 = [k \in 1..Cardinality(RegularPlaces) |->
                       16 + Ascending(RegularPlaces)[k]]

\* The LFN slots that lie directly before place i, with no other slot between
LfnRun(i) == {j \in 1..(i - 1) : \A m \in j..(i - 1) : device.slots[m] = "L"}

\* The name of the regular entry at place i: the long name that starts in the
\* first slot of the run (its payload ends with a terminator), or the short
\* name
ExpectedName(i) ==
    IF LfnRun(i) = {} THEN << 64 + i >>
    ELSE << 108, 48 + (CHOOSE j \in LfnRun(i) : \A m \in LfnRun(i) : j <= m) >>

\* C28: the LFN accumulator is empty after every yielded Entry and after
\* every Deleted slot: LFN entries that precede a Deleted slot or an earlier
\* Regular slot never contribute to the name of a later entry, and a Regular
\* slot reached with an empty accumulator gets its 8.3 short name.
C28_LfnAccumulatorIsCleared ==
    (result.op = "collect" /\ device.name = "dir")
        => \A k \in 1..Len(result.data) :
              LET i == result.data[k].cluster - 16
              IN  /\ i \in RegularPlaces
                  /\ result.data[k].name = ExpectedName(i)

\* LFN, Deleted, Regular, LFN, Regular: the first entry has its short name,
\* the second its long name
C28_Witness ==
    /\ result.op = "collect" /\ device.name = "dir"
    /\ SubSeq(device.slots, 1, 5) = << "L", "D", "R", "L", "R" >>
    /\ result.n = 2
    /\ result.data[1].name = << 67 >> /\ result.data[2].name = << 108, 52 >>

\* ---- clusters 0 and 1 ----
\* C29: no chain traversal treats cluster 0 or 1 as data: for a start cluster
\* 0 or 1 read_chain and read_cluster never evaluate cluster_to_sector, so
\* c - 2 never underflows: the call does not panic and no sector is read as
\* the data of such a cluster.
C29_ClustersBelowTwoAreNeverData ==
    (result.op \in {"read_chain", "read_cluster"} /\ startCluster \in {0, 1})
        => result.st # "Panic" /\ result.n = 0

\* ---- File: the offset ----
\* C30: for every File 0 <= offset <= size holds after any sequence of seek
\* and read calls, successful or failed; a seek that fails with InvalidInput
\* and a read that fails with an error both leave the offset unchanged.
C30_OffsetWithinSize ==
    /\ file.kind = "File" => (file.offset >= 0 /\ file.offset <= file.size)
    /\ (result.op = "seek" /\ result.st = "InvalidInput")
          => file.offset = result.pre.offset
    /\ (result.op = "read" /\ result.st # "Ok")
          => file.offset = result.pre.offset

\* a read that fails away from the start of the file
C30_Witness ==
    /\ result.op = "read" /\ result.st \notin {"Ok", "Panic"}
    /\ file.kind = "File" /\ file.offset > 0 /\ file.offset = result.pre.offset

\* a seek past the end that fails away from the start of the file
C30_WitnessSeek ==
    /\ result.op = "seek" /\ result.st = "InvalidInput" /\ result.whence = "Current"
    /\ file.offset > 0 /\ file.offset + result.p > file.size

\* ---- DirIter: after None ----
\* C31: the directory iterator is terminal once it has stopped: after next()
\* has returned None (it met an End slot or ran out of chain bytes) every
\* later call returns None too and yields no entry stored after the End slot.
C31_DirIterIsTerminal ==
    (result.op = "dir_next" /\ result.arg[2] = 1) => result.n = 0

====
